---- MODULE Spec2Model ----
(***************************************************************************)
(* Model of the RAGCV adaptive retrieval engine                            *)
(*   src/backend/ragcv/retrieval/retrieval.py  (hybrid engine)             *)
(*   src/src/utils/retrieval.py                (dense-only engine)         *)
(*   src/src/utils/context.py                  (context assembler)         *)
(*                                                                         *)
(* Conventions                                                             *)
(*  - A real number (score, similarity, weight, threshold) is an exact     *)
(*    rational <<n, d>> in lowest terms with d > 0.                        *)
(*  - A Document is identified by a positive integer (its id()).           *)
(*  - A (Document, score) pair of the source is the tuple <<doc, score>>.  *)
(*  - An embedding vector is a pair of integers with an integral norm, so  *)
(*    that the cosine similarity is an exact rational.                     *)
(***************************************************************************)
EXTENDS Integers, Sequences, FiniteSets

VARIABLES
    config,        \* AdaptiveRetrieverConfig of the engine
    embeddings,    \* the embedding model: Document -> vector
    corpus_docs,   \* AdaptiveRetriever.corpus_docs
    bm25,          \* AdaptiveRetriever.bm25: "none" or "built"
    vectorstore,   \* the dense index's ranking for the current query
    bm25_scores,   \* BM25Okapi.get_scores for the current query
    pc,            \* position of the running call
    candidates,    \* local `candidates` of the running call
    filtered,      \* `candidates` as left by the threshold filter (lines 102-106)
    searches,      \* pool sizes k of the expansion searches issued by the call
    deduped,       \* local `deduped`
    selected,      \* value returned by the call
    docs,          \* input of assemble_with_token_budget
    asm_config,    \* ContextAssemblyConfig
    assembled,     \* output of assemble_with_token_budget
    raw_config,    \* content of the retrieval configuration file being loaded
    calls,         \* the retrieval calls in progress on a shared engine, per caller
    store,         \* metadata of the chunks stored in the dense index
    query,         \* the query of the running call: a text or a list of sub-queries
    chunking,      \* local variables of a running chunk_large_document
    tasks,         \* server.py `tasks`: task_id -> entry
    requests,      \* the POST /query requests accepted so far and their background tasks
    clock          \* datetime.now() of the server, in whole seconds

vars == <<config, embeddings, corpus_docs, bm25, vectorstore, bm25_scores, pc,
          candidates, filtered, searches, deduped, selected, docs, asm_config, assembled,
          raw_config, calls, store, query, chunking, tasks, requests, clock>>

(***************************************************************************)
(* Bounds of the model                                                     *)
(***************************************************************************)
NumChunks == 3

\* longest candidate list given to the deduplicator or the diversifier alone
MaxCands == 4

Chunks == 1..NumChunks

\* F applied to the value of v, with v evaluated once (a local variable)
With(v, F(_)) == CHOOSE r \in {F(x) : x \in {v}} : TRUE

(***************************************************************************)
(* Exact rational arithmetic standing for Python floats                    *)
(***************************************************************************)
Abs(x) == IF x < 0 THEN -x ELSE x

RECURSIVE GCD(_, _)
GCD(a, b) == IF b = 0 THEN a ELSE GCD(b, a % b)

Rat(n, d) ==
    LET s == IF d < 0 THEN -1 ELSE 1
        g == GCD(Abs(n), Abs(d))
    IN  <<(s * n) \div g, (s * d) \div g>>

Zero == <<0, 1>>
One == <<1, 1>>

\* x < y, by comparing continued-fraction expansions (no cross products)
RECURSIVE RatLess(_, _)
RatLess(x, y) ==
    LET qx == x[1] \div x[2]
        qy == y[1] \div y[2]
        rx == x[1] % x[2]
        ry == y[1] % y[2]
    IN  IF qx # qy THEN qx < qy
        ELSE IF ry = 0 THEN FALSE
        ELSE IF rx = 0 THEN TRUE
        ELSE RatLess(<<y[2], ry>>, <<x[2], rx>>)

RatLeq(x, y) == ~RatLess(y, x)
RatGeq(x, y) == ~RatLess(x, y)
RatAdd(x, y) == Rat(x[1] * y[2] + y[1] * x[2], x[2] * y[2])
RatSub(x, y) == Rat(x[1] * y[2] - y[1] * x[2], x[2] * y[2])
RatMul(x, y) == Rat(x[1] * y[1], x[2] * y[2])

(***************************************************************************)
(* Embeddings                                                              *)
(***************************************************************************)
\* vectors an embedding may take; all have integral Euclidean norm. At the
\* default dedupe_threshold 0.88, <<3, 4>> is a near-duplicate of <<4, 3>>
\* (24/25) and of <<5, 12>> (63/65), while <<1, 0>>, <<4, 3>> and <<5, 12>> are
\* pairwise dissimilar (4/5, 5/13, 56/65)
EmbedVectors == {<<1, 0>>, <<4, 3>>, <<3, 4>>, <<5, 12>>}

\* np.linalg.norm
Norm(v) == CHOOSE r \in 0..(Abs(v[1]) + Abs(v[2])) : r * r = v[1] * v[1] + v[2] * v[2]

\* retrieval.py cos_sim
cos_sim(vec_a, vec_b) ==
    LET denom == Norm(vec_a) * Norm(vec_b)
    IN  IF denom = 0 THEN Zero
        ELSE Rat(vec_a[1] * vec_b[1] + vec_a[2] * vec_b[2], denom)

\* retrieval.py embed_batch: texts are identified with their documents
embed_batch(texts, emb) == [i \in 1..Len(texts) |-> emb[texts[i]]]

(***************************************************************************)
(* Deduplicator                                                            *)
(***************************************************************************)
\* dedup_inner with the representative never replaced by a higher-scoring
\* member of its group
RECURSIVE dedup_inner_keep_first(_, _, _, _, _, _)
dedup_inner_keep_first(cands, vectors, sim_threshold, i, j, st) ==
    IF j > Len(cands) THEN st
    ELSE IF j \in st.skipped
    THEN dedup_inner_keep_first(cands, vectors, sim_threshold, i, j + 1, st)
    ELSE IF RatGeq(cos_sim(vectors[i], vectors[j]), sim_threshold)
    THEN dedup_inner_keep_first(cands, vectors, sim_threshold, i, j + 1,
            [representative |-> st.representative, skipped |-> st.skipped \cup {j}])
    ELSE dedup_inner_keep_first(cands, vectors, sim_threshold, i, j + 1, st)

\* inner loop `for j in range(i + 1, len(candidates))` of deduplicate_chunks;
\* st = [representative, skipped]
RECURSIVE dedup_inner(_, _, _, _, _, _)
dedup_inner(cands, vectors, sim_threshold, i, j, st) ==
    IF j > Len(cands) THEN st
    ELSE IF j \in st.skipped
    THEN dedup_inner(cands, vectors, sim_threshold, i, j + 1, st)
    ELSE IF RatGeq(cos_sim(vectors[i], vectors[j]), sim_threshold)
    THEN dedup_inner(cands, vectors, sim_threshold, i, j + 1,
            [representative |->
                IF RatLess(st.representative[2], cands[j][2])
                THEN cands[j] ELSE st.representative,
             skipped |-> st.skipped \cup {j}])
    ELSE dedup_inner(cands, vectors, sim_threshold, i, j + 1, st)

\* dedup_outer without the test `if i in skipped: continue`
RECURSIVE dedup_outer_no_skip(_, _, _, _, _, _)
dedup_outer_no_skip(cands, vectors, sim_threshold, i, kept, skipped) ==
    IF i > Len(cands) THEN kept
    ELSE LET st == dedup_inner(cands, vectors, sim_threshold, i, i + 1,
                        [representative |-> cands[i], skipped |-> skipped])
         IN  dedup_outer_no_skip(cands, vectors, sim_threshold, i + 1,
                Append(kept, [representative |-> st.representative,
                              members |-> {i} \cup (st.skipped \ skipped)]),
                st.skipped)

\* outer loop `for i, (doc_i, score_i) in enumerate(candidates)`; returns the
\* sequence of [representative, members], members being the positions merged
\* into the representative's group (position i and those it marked skipped)
RECURSIVE dedup_outer(_, _, _, _, _, _)
dedup_outer(cands, vectors, sim_threshold, i, kept, skipped) ==
    IF i > Len(cands) THEN kept
    ELSE IF i \in skipped
    THEN dedup_outer(cands, vectors, sim_threshold, i + 1, kept, skipped)
    ELSE LET st == dedup_inner(cands, vectors, sim_threshold, i, i + 1,
                        [representative |-> cands[i], skipped |-> skipped])
         IN  dedup_outer(cands, vectors, sim_threshold, i + 1,
                Append(kept, [representative |-> st.representative,
                              members |-> {i} \cup (st.skipped \ skipped)]),
                st.skipped)

dedup_groups(cands, emb, sim_threshold) ==
    IF Len(cands) <= 1
    THEN [i \in 1..Len(cands) |-> [representative |-> cands[i], members |-> {i}]]
    ELSE dedup_outer(cands, embed_batch([i \in 1..Len(cands) |-> cands[i][1]], emb),
                     sim_threshold, 1, <<>>, {})

\* retrieval.py deduplicate_chunks
deduplicate_chunks(cands, emb, sim_threshold) ==
    LET g == dedup_groups(cands, emb, sim_threshold)
    IN  [i \in 1..Len(g) |-> g[i].representative]

(***************************************************************************)
(* Diversifier: marginal-relevance selection                               *)
(***************************************************************************)
\* -math.inf, written with a zero denominator
NegInf == <<-1, 0>>

ExtLess(x, y) ==
    IF y = NegInf THEN FALSE
    ELSE IF x = NegInf THEN TRUE
    ELSE RatLess(x, y)

\* argmax taking the last position holding a maximal value
argmax_last(values) ==
    CHOOSE i \in 1..Len(values) :
        /\ \A j \in 1..Len(values) : ~ExtLess(values[i], values[j])
        /\ \A j \in (i + 1)..Len(values) : ExtLess(values[j], values[i])

\* np.argmax: the first position holding a maximal value
argmax(values) ==
    CHOOSE i \in 1..Len(values) :
        /\ \A j \in 1..Len(values) : ~ExtLess(values[i], values[j])
        /\ \A j \in 1..(i - 1) : ExtLess(values[j], values[i])

\* max(cos_sim(vectors[idx], vectors[sel_idx]) for sel_idx in selected_indices)
max_similarity(vectors, idx, selected_indices) ==
    LET sims == {cos_sim(vectors[idx], vectors[selected_indices[t]]) :
                    t \in 1..Len(selected_indices)}
    IN  CHOOSE m \in sims : \A o \in sims : RatLeq(o, m)

InSeq(x, s) == \E t \in 1..Len(s) : s[t] = x

\* mmr_scores with the two weights exchanged
mmr_scores_swapped(relevance, vectors, mmr_lambda, selected_indices) ==
    [idx \in 1..Len(relevance) |->
        IF InSeq(idx, selected_indices) THEN NegInf
        ELSE RatSub(RatMul(RatSub(One, mmr_lambda), relevance[idx]),
                    RatMul(mmr_lambda,
                           max_similarity(vectors, idx, selected_indices)))]

\* mmr_scores rewarding similarity instead of penalising it
mmr_scores_added(relevance, vectors, mmr_lambda, selected_indices) ==
    [idx \in 1..Len(relevance) |->
        IF InSeq(idx, selected_indices) THEN NegInf
        ELSE RatAdd(RatMul(mmr_lambda, relevance[idx]),
                    RatMul(RatSub(One, mmr_lambda),
                           max_similarity(vectors, idx, selected_indices)))]

\* the list mmr_scores built by one pass of the while loop of mmr_selection
mmr_scores(relevance, vectors, mmr_lambda, selected_indices) ==
    [idx \in 1..Len(relevance) |->
        IF InSeq(idx, selected_indices) THEN NegInf
        ELSE RatSub(RatMul(mmr_lambda, relevance[idx]),
                    RatMul(RatSub(One, mmr_lambda),
                           max_similarity(vectors, idx, selected_indices)))]

\* the while loop `while len(selected_indices) < k` of mmr_selection
RECURSIVE mmr_loop(_, _, _, _, _)
mmr_loop(relevance, vectors, mmr_lambda, k, selected_indices) ==
    IF Len(selected_indices) >= k THEN selected_indices
    ELSE With(mmr_scores(relevance, vectors, mmr_lambda, selected_indices),
              LAMBDA scores :
                LET next_idx == argmax(scores)
                IN  IF scores[next_idx] = NegInf THEN selected_indices
                    ELSE mmr_loop(relevance, vectors, mmr_lambda, k,
                                  Append(selected_indices, next_idx)))

Min(a, b) == IF a < b THEN a ELSE b

\* selected_indices at the return of mmr_selection
mmr_selected_indices(cands, emb, mmr_k, mmr_lambda) ==
    LET k == Min(mmr_k, Len(cands))
    IN  IF k = 0 THEN <<>>
        ELSE With(embed_batch([i \in 1..Len(cands) |-> cands[i][1]], emb),
                  LAMBDA vectors :
                    With([i \in 1..Len(cands) |-> cands[i][2]],
                         LAMBDA relevance :
                            mmr_loop(relevance, vectors, mmr_lambda, k,
                                     <<argmax(relevance)>>)))

\* retrieval.py mmr_selection
mmr_selection(cands, emb, mmr_k, mmr_lambda) ==
    LET sel == mmr_selected_indices(cands, emb, mmr_k, mmr_lambda)
    IN  [t \in 1..Len(sel) |-> cands[sel[t]]]

(***************************************************************************)
(* Dense index access                                                      *)
(***************************************************************************)
\* A vectorstore is [relevance |-> BOOLEAN, ranking |-> sequence of <<doc, raw>>]:
\* `relevance` says whether it offers similarity_search_with_relevance_scores,
\* `ranking` is its answer to the current query, best first; raw is a relevance
\* score, or a distance (NoDistance for None) when `relevance` is FALSE.
NoDistance == <<0, 0>>

Prefix(s, k) == SubSeq(s, 1, Min(k, Len(s)))

\* retrieval.py _run_vectorstore_search
_run_vectorstore_search(vs, k) ==
    LET raw == Prefix(vs.ranking, k)
    IN  IF vs.relevance THEN raw
        ELSE [i \in 1..Len(raw) |->
                <<raw[i][1],
                  IF raw[i][2] = NoDistance THEN Zero
                  ELSE Rat(raw[i][2][2], raw[i][2][2] + raw[i][2][1])>>]

(***************************************************************************)
(* Fusion engine                                                           *)
(***************************************************************************)
k_rrf == 60

\* list.sort(key=lambda x: x[1], reverse=True): stable, descending by score
RECURSIVE InsertDesc(_, _)
InsertDesc(sorted, x) ==
    IF sorted = <<>> THEN <<x>>
    ELSE IF RatLess(Head(sorted)[2], x[2]) THEN <<x>> \o sorted
    ELSE <<Head(sorted)>> \o InsertDesc(Tail(sorted), x)

RECURSIVE SortDesc(_)
SortDesc(s) ==
    IF s = <<>> THEN <<>>
    ELSE InsertDesc(SortDesc(SubSeq(s, 1, Len(s) - 1)), s[Len(s)])

SeqMax(s) == CHOOSE m \in {s[i] : i \in 1..Len(s)} : \A i \in 1..Len(s) : RatLeq(s[i], m)

\* bm25_results of _hybrid_search: normalised, sorted, cut to 2 * base_k
bm25_results(corpus, scores, cfg) ==
    LET max_bm25 == IF RatLess(Zero, SeqMax(scores)) THEN SeqMax(scores) ELSE One
        all == [i \in 1..Len(corpus) |->
                    <<corpus[i], Rat(scores[i][1] * max_bm25[2], scores[i][2] * max_bm25[1])>>]
    IN  Prefix(SortDesc(all), cfg.base_k * 2)

\* position of doc in a list of pairs, 0 when absent
RECURSIVE RankOf(_, _)
RankOf(list, doc) ==
    IF list = <<>> THEN 0
    ELSE IF list[Len(list)][1] = doc /\ RankOf(SubSeq(list, 1, Len(list) - 1), doc) = 0
    THEN Len(list)
    ELSE RankOf(SubSeq(list, 1, Len(list) - 1), doc)

\* the first loop dividing the weight by the rank alone, without k_rrf
RECURSIVE rrf_add_embedding_no_k(_, _, _, _)
rrf_add_embedding_no_k(rrf, embedding_results, rank, cfg) ==
    IF rank > Len(embedding_results) THEN rrf
    ELSE LET doc == embedding_results[rank][1]
             contrib == Rat(cfg.embedding_weight[1], cfg.embedding_weight[2] * rank)
             at == RankOf(rrf, doc)
         IN  rrf_add_embedding_no_k(
                IF at = 0 THEN Append(rrf, <<doc, RatAdd(Zero, contrib)>>)
                ELSE [rrf EXCEPT ![at] = <<doc, RatAdd(rrf[at][2], contrib)>>],
                embedding_results, rank + 1, cfg)

\* first loop of the fusion: `for rank, (doc, score) in enumerate(embedding_results, start=1)`
\* rrf is the dict rrf_scores as the sequence of its <<doc, score>> items in insertion order
RECURSIVE rrf_add_embedding(_, _, _, _)
rrf_add_embedding(rrf, embedding_results, rank, cfg) ==
    IF rank > Len(embedding_results) THEN rrf
    ELSE LET doc == embedding_results[rank][1]
             contrib == Rat(cfg.embedding_weight[1],
                            cfg.embedding_weight[2] * (k_rrf + rank))
             at == RankOf(rrf, doc)
         IN  rrf_add_embedding(
                IF at = 0 THEN Append(rrf, <<doc, RatAdd(Zero, contrib)>>)
                ELSE [rrf EXCEPT ![at] = <<doc, RatAdd(rrf[at][2], contrib)>>],
                embedding_results, rank + 1, cfg)

\* the second loop assigning the lexical contribution instead of adding it
RECURSIVE rrf_add_bm25_assign(_, _, _, _)
rrf_add_bm25_assign(rrf, lexical, rank, cfg) ==
    IF rank > Len(lexical) THEN rrf
    ELSE LET doc == lexical[rank][1]
             contrib == Rat(cfg.bm25_weight[1], cfg.bm25_weight[2] * (k_rrf + rank))
             at == RankOf(rrf, doc)
         IN  rrf_add_bm25_assign(
                IF at = 0 THEN Append(rrf, <<doc, contrib>>)
                ELSE [rrf EXCEPT ![at] = <<doc, contrib>>],
                lexical, rank + 1, cfg)

\* the second loop subtracting the lexical contribution from the dense one
RECURSIVE rrf_add_bm25_subtract(_, _, _, _)
rrf_add_bm25_subtract(rrf, lexical, rank, cfg) ==
    IF rank > Len(lexical) THEN rrf
    ELSE LET doc == lexical[rank][1]
             contrib == Rat(cfg.bm25_weight[1], cfg.bm25_weight[2] * (k_rrf + rank))
             at == RankOf(rrf, doc)
         IN  rrf_add_bm25_subtract(
                IF at = 0 THEN Append(rrf, <<doc, contrib>>)
                ELSE [rrf EXCEPT ![at] = <<doc, RatSub(rrf[at][2], contrib)>>],
                lexical, rank + 1, cfg)

\* second loop: `for rank, (doc, score) in enumerate(bm25_results, start=1)`
RECURSIVE rrf_add_bm25(_, _, _, _)
rrf_add_bm25(rrf, lexical, rank, cfg) ==
    IF rank > Len(lexical) THEN rrf
    ELSE LET doc == lexical[rank][1]
             contrib == Rat(cfg.bm25_weight[1], cfg.bm25_weight[2] * (k_rrf + rank))
             at == RankOf(rrf, doc)
         IN  rrf_add_bm25(
                IF at = 0 THEN Append(rrf, <<doc, contrib>>)
                ELSE [rrf EXCEPT ![at] = <<doc, RatAdd(rrf[at][2], contrib)>>],
                lexical, rank + 1, cfg)

\* the dict rrf_scores after both loops
rrf_scores(vs, corpus, scores, cfg) ==
    rrf_add_bm25(
        rrf_add_embedding(<<>>, _run_vectorstore_search(vs, cfg.base_k * 2), 1, cfg),
        bm25_results(corpus, scores, cfg), 1, cfg)

\* _hybrid_search without the final sort
_hybrid_search_unsorted(vs, corpus, scores, cfg) ==
    Prefix(rrf_scores(vs, corpus, scores, cfg), cfg.base_k)

\* retrieval.py AdaptiveRetriever._hybrid_search
_hybrid_search(vs, corpus, scores, cfg) ==
    Prefix(SortDesc(rrf_scores(vs, corpus, scores, cfg)), cfg.base_k)

(***************************************************************************)
(* Adaptive retrieval: one call of AdaptiveRetriever.adaptive_retrieval    *)
(***************************************************************************)
\* the list comprehension filtering by config.score_threshold
threshold_filter(cands, cfg) ==
    SelectSeq(cands, LAMBDA c : RatGeq(c[2], cfg.score_threshold))

\* `for doc, score in expanded: merged[id(doc)] = (doc, float(score))`
\* merged is the dict as the sequence of its values in insertion order
RECURSIVE merge_expanded(_, _)
merge_expanded(merged, expanded) ==
    IF expanded = <<>> THEN merged
    ELSE LET at == RankOf(merged, Head(expanded)[1])
         IN  merge_expanded(
                IF at = 0 THEN Append(merged, Head(expanded))
                ELSE [merged EXCEPT ![at] = Head(expanded)],
                Tail(expanded))

\* the branch `if len(candidates) < config.min_high_score`
expand_candidates(cands, vs, cfg) ==
    SortDesc(merge_expanded(cands, _run_vectorstore_search(vs, cfg.base_k * 2)))

\* the expansion test with <= for <
needs_expansion_inclusive(cands, cfg) == Len(cands) <= cfg.min_high_score

needs_expansion(cands, cfg) == Len(cands) < cfg.min_high_score

\* the lexical branch taken whenever hybrid retrieval is configured
uses_lexical_unguarded(cfg, index) == cfg.use_hybrid

\* `if config.use_hybrid and self.bm25 is not None` (line 92)
uses_lexical(cfg, index) == cfg.use_hybrid /\ index # "none"

\* the first search of adaptive_retrieval (lines 92-99)
initial_search(vs, corpus, index, scores, cfg) ==
    IF uses_lexical(cfg, index)
    THEN _hybrid_search(vs, corpus, scores, cfg)
    ELSE _run_vectorstore_search(vs, cfg.base_k)

(***************************************************************************)
(* Input domains                                                           *)
(***************************************************************************)
NonIncreasing(s) == \A i \in 1..(Len(s) - 1) : RatGeq(s[i][2], s[i + 1][2])

\* relevance scores the dense index reports
DenseScores == {<<1, 10>>, <<9, 10>>}

\* answers of the dense index of the engine (FAISS: relevance scores, best
\* first); documents are numbered by their place in the answer
Vectorstores ==
    {[relevance |-> TRUE, ranking |-> r] :
        r \in {x \in UNION {[1..n -> Chunks \X DenseScores] : n \in 0..NumChunks} :
                    /\ \A i \in 1..Len(x) : x[i][1] = i
                    /\ NonIncreasing(x)}}

\* raw BM25 scores of the corpus documents
Bm25Levels == {Zero, One}

Bm25Answers ==
    IF bm25 = "none" THEN {<<>>} ELSE [1..Len(corpus_docs) -> Bm25Levels]

MaxBaseK == 2

DefaultConfig ==
    [base_k |-> 10, mmr_k |-> 5, mmr_lambda |-> <<3, 5>>, score_threshold |-> <<3, 20>>,
     min_high_score |-> 5, dedupe_threshold |-> <<22, 25>>, use_hybrid |-> TRUE,
     bm25_weight |-> <<1, 2>>, embedding_weight |-> <<1, 2>>]

\* configurations of the engine under check
Configs ==
    {[DefaultConfig EXCEPT !.base_k = b, !.min_high_score = m, !.mmr_k = k,
                           !.score_threshold = t, !.use_hybrid = h] :
        b \in 1..MaxBaseK, m \in {1, MaxBaseK}, k \in {1, 3},
        t \in {<<1, 125>>, <<3, 20>>}, h \in BOOLEAN}

NoStore == [relevance |-> TRUE, ranking |-> <<>>]

\* no call running
NoQuery == [kind |-> "none"]

\* invoke(query: str)
TextQuery == [kind |-> "text"]

\* a caller invokes the engine with a query; the query fixes what the two
\* indexes answer
Invoke ==
    /\ pc = "idle"
    /\ \E vs \in Vectorstores : vectorstore' = vs
    /\ \E sc \in Bm25Answers : bm25_scores' = sc
    /\ query' = TextQuery
    /\ pc' = "search"
    /\ UNCHANGED <<config, embeddings, corpus_docs, bm25, candidates, filtered,
                   searches, deduped, selected, docs, asm_config, assembled,
                   raw_config, calls, store,
                   chunking, tasks, requests, clock>>

\* the first search returns, or raises: with the lexical branch taken,
\* self.bm25.get_scores raises when self.bm25 is None and query.lower() raises
\* when the query is a list (line 157); on the dense branch the embedding
\* client is handed the list and may accept or refuse it
search_outcomes(q, cfg, index) ==
    IF uses_lexical(cfg, index)
    THEN IF index = "none" \/ q.kind = "subqueries" THEN {"raised"} ELSE {"returned"}
    ELSE IF q.kind = "subqueries" THEN {"raised", "returned"} ELSE {"returned"}

Search ==
    /\ pc = "search"
    /\ \E outcome \in search_outcomes(query, config, bm25) :
        IF outcome = "raised"
        THEN pc' = "raised" /\ UNCHANGED candidates
        ELSE /\ candidates' = initial_search(vectorstore, corpus_docs, bm25, bm25_scores, config)
             /\ pc' = "filter"
    /\ UNCHANGED <<config, embeddings, corpus_docs, bm25, vectorstore, bm25_scores,
                   filtered, searches, deduped, selected, docs, asm_config, assembled,
                   raw_config, calls, store, query,
                   chunking, tasks, requests, clock>>

Filter ==
    /\ pc = "filter"
    /\ candidates' = threshold_filter(candidates, config)
    /\ filtered' = candidates'
    /\ pc' = "expand"
    /\ UNCHANGED <<config, embeddings, corpus_docs, bm25, vectorstore, bm25_scores,
                   searches, deduped, selected, docs, asm_config, assembled,
                   raw_config, calls, store, query,
                   chunking, tasks, requests, clock>>

Expand ==
    /\ pc = "expand"
    /\ IF needs_expansion(candidates, config)
       THEN /\ searches' = Append(searches, config.base_k * 2)
            /\ candidates' = expand_candidates(candidates, vectorstore, config)
       ELSE UNCHANGED <<searches, candidates>>
    /\ pc' = IF candidates' = <<>> THEN "done" ELSE "dedupe"
    /\ selected' = <<>>
    /\ UNCHANGED <<config, embeddings, corpus_docs, bm25, vectorstore, bm25_scores,
                   filtered, deduped, docs, asm_config, assembled,
                   raw_config, calls, store, query,
                   chunking, tasks, requests, clock>>

\* the embedding model is consulted when the deduplicator first embeds texts;
\* from then on it answers the same vectors
Deduplicate ==
    /\ pc = "dedupe"
    /\ \E emb \in (IF embeddings = <<>> THEN [Chunks -> EmbedVectors] ELSE {embeddings}) :
        /\ embeddings' = emb
        /\ deduped' = deduplicate_chunks(candidates, emb, config.dedupe_threshold)
    /\ pc' = IF deduped' = <<>> THEN "done" ELSE "select"
    /\ UNCHANGED <<config, corpus_docs, bm25, vectorstore, bm25_scores, candidates,
                   filtered, searches, selected, docs, asm_config, assembled,
                   raw_config, calls, store, query,
                   chunking, tasks, requests, clock>>

Select ==
    /\ pc = "select"
    /\ selected' = mmr_selection(deduped, embeddings, config.mmr_k, config.mmr_lambda)
    /\ pc' = "done"
    /\ UNCHANGED <<config, embeddings, corpus_docs, bm25, vectorstore, bm25_scores,
                   candidates, filtered, searches, deduped, docs, asm_config, assembled,
                   raw_config, calls, store, query,
                   chunking, tasks, requests, clock>>

(***************************************************************************)
(* The engine: construction, then one retrieval call                       *)
(***************************************************************************)
\* what __init__ leaves of the lexical index: not asked for; built; the
\* docstore gave documents and BM25Okapi raised; the docstore gave no document
\* or reading it raised (corpus_docs stays empty, bm25 stays None)
initialize_bm25_outcomes(cfg) ==
    IF cfg.use_hybrid THEN {"built", "build raised", "no corpus"} ELSE {"not hybrid"}

\* self.corpus_docs after __init__
corpus_after(outcome) ==
    IF outcome \in {"built", "build raised"} THEN [i \in 1..NumChunks |-> i] ELSE <<>>

\* self.bm25 after __init__
bm25_after(outcome) == IF outcome = "built" THEN "built" ELSE "none"

\* AdaptiveRetriever.__init__ with _initialize_bm25: the index is built from the
\* docstore when hybrid retrieval is on, unless the build raises
Init ==
    /\ config \in Configs
    /\ \E outcome \in initialize_bm25_outcomes(config) :
        /\ corpus_docs = corpus_after(outcome)
        /\ bm25 = bm25_after(outcome)
    /\ embeddings = <<>>
    /\ vectorstore = NoStore
    /\ bm25_scores = <<>>
    /\ pc = "idle"
    /\ candidates = <<>>
    /\ filtered = <<>>
    /\ searches = <<>>
    /\ deduped = <<>>
    /\ selected = <<>>
    /\ docs = <<>>
    /\ asm_config = <<>>
    /\ raw_config = <<>>
    /\ calls = <<>>
    /\ store = <<>>
    /\ query = NoQuery
    /\ chunking = <<>>
    /\ tasks = <<>>
    /\ requests = <<>>
    /\ clock = 0
    /\ assembled = <<>>

Next == Invoke \/ Search \/ Filter \/ Expand \/ Deduplicate \/ Select

Spec == Init /\ [][Next]_vars

(***************************************************************************)
(* The deduplicator alone, on any candidate list                           *)
(***************************************************************************)
DedupScores == {<<7, 10>>, <<9, 10>>, <<19, 20>>}

\* candidates in any score order; documents are numbered by position
InitDedup ==
    /\ \E n \in 0..MaxCands : \E sc \in [1..n -> DedupScores] :
            candidates = [i \in 1..n |-> <<i, sc[i]>>]
    /\ embeddings \in [1..MaxCands -> EmbedVectors]
    /\ config \in {[DefaultConfig EXCEPT !.dedupe_threshold = t] : t \in {<<22, 25>>, <<97, 100>>}}
    /\ pc = "dedupe"
    /\ corpus_docs = <<>>
    /\ bm25 = "none"
    /\ vectorstore = NoStore
    /\ bm25_scores = <<>>
    /\ filtered = <<>>
    /\ searches = <<>>
    /\ deduped = <<>>
    /\ selected = <<>>
    /\ docs = <<>>
    /\ asm_config = <<>>
    /\ raw_config = <<>>
    /\ calls = <<>>
    /\ store = <<>>
    /\ query = TextQuery
    /\ chunking = <<>>
    /\ tasks = <<>>
    /\ requests = <<>>
    /\ clock = 0
    /\ assembled = <<>>

SpecDedup == InitDedup /\ [][Deduplicate]_vars

(***************************************************************************)
(* The diversifier alone                                                   *)
(***************************************************************************)
MmrScores == {<<1, 10>>, <<9, 10>>}

InitMMR ==
    /\ \E n \in 0..MaxCands : \E sc \in [1..n -> MmrScores] :
            deduped = [i \in 1..n |-> <<i, sc[i]>>]
    /\ embeddings \in [1..MaxCands -> EmbedVectors]
    /\ config \in {[DefaultConfig EXCEPT !.mmr_k = k, !.mmr_lambda = l] :
                        k \in {0, 2, MaxCands}, l \in {Zero, <<3, 5>>, One}}
    /\ pc = "select"
    /\ corpus_docs = <<>>
    /\ bm25 = "none"
    /\ vectorstore = NoStore
    /\ bm25_scores = <<>>
    /\ candidates = <<>>
    /\ filtered = <<>>
    /\ searches = <<>>
    /\ selected = <<>>
    /\ docs = <<>>
    /\ asm_config = <<>>
    /\ raw_config = <<>>
    /\ calls = <<>>
    /\ store = <<>>
    /\ query = TextQuery
    /\ chunking = <<>>
    /\ tasks = <<>>
    /\ requests = <<>>
    /\ clock = 0
    /\ assembled = <<>>

SpecMMR == InitMMR /\ [][Select]_vars

(***************************************************************************)
(* The fusion engine alone                                                 *)
(***************************************************************************)
FusionBm25Levels == {Zero, One, <<2, 1>>}

\* sequences of distinct documents
Distinct(s) == \A i, j \in 1..Len(s) : s[i] = s[j] => i = j

\* the dense index may answer any documents in any order, with relevance
\* scores 1, 1/2, 1/3, ... or with distances 0, 1, 2, ...; the fusion reads
\* ranks only
FusionStores ==
    {[relevance |-> rel,
      ranking |-> [i \in 1..Len(order) |->
                    <<order[i], IF rel THEN Rat(1, i) ELSE Rat(i - 1, 1)>>]] :
        rel \in BOOLEAN,
        order \in {o \in UNION {[1..n -> Chunks] : n \in 0..NumChunks} : Distinct(o)}}

InitFusion ==
    /\ config \in {[DefaultConfig EXCEPT !.base_k = b, !.use_hybrid = h,
                                         !.bm25_weight = w[1],
                                         !.embedding_weight = w[2]] :
                        b \in 1..MaxBaseK, h \in BOOLEAN,
                        w \in {<<<<1, 2>>, <<1, 2>>>>, <<<<3, 10>>, <<7, 10>>>>,
                               <<One, Zero>>, <<Zero, One>>}}
    /\ corpus_docs = [i \in 1..NumChunks |-> i]
    /\ bm25 = "built"
    /\ vectorstore \in FusionStores
    /\ bm25_scores \in [1..NumChunks -> FusionBm25Levels]
    /\ pc = "search"
    /\ embeddings = <<>>
    /\ candidates = <<>>
    /\ filtered = <<>>
    /\ searches = <<>>
    /\ deduped = <<>>
    /\ selected = <<>>
    /\ docs = <<>>
    /\ asm_config = <<>>
    /\ raw_config = <<>>
    /\ calls = <<>>
    /\ store = <<>>
    /\ query = TextQuery
    /\ chunking = <<>>
    /\ tasks = <<>>
    /\ requests = <<>>
    /\ clock = 0
    /\ assembled = <<>>

SpecFusion == InitFusion /\ [][Search]_vars

(***************************************************************************)
(* Properties of the deduplicator                                          *)
(***************************************************************************)
Range(s) == {s[i] : i \in 1..Len(s)}

\* two documents are near-duplicates under the configured threshold
Similar(d1, d2) ==
    RatGeq(cos_sim(embeddings[d1], embeddings[d2]), config.dedupe_threshold)

DedupDone == pc \in {"select", "done"} /\ candidates # <<>>

\* C3: for every input candidate list, no two candidates in the output of
\* deduplicate_chunks have cosine similarity >= sim_threshold, and running
\* deduplicate_chunks on its own output returns the same list.
C3_DedupIdempotent ==
    DedupDone =>
        /\ \A i, j \in 1..Len(deduped) :
                i # j => ~Similar(deduped[i][1], deduped[j][1])
        /\ deduplicate_chunks(deduped, embeddings, config.dedupe_threshold) = deduped

\* C4: deduplicate_chunks keeps every candidate that is similar to no other
\* candidate; the representative kept for a group belongs to the group and has
\* a score at least as high as every member of the group; the groups cover
\* every candidate; and for A (0.9), B (0.7, similar to A), C (0.95, similar to
\* neither) the output is exactly {A, C}.
C4_Example(a, b, c) ==
    /\ Len(candidates) = 3
    /\ {a, b, c} = {1, 2, 3}
    /\ candidates[a][2] = <<9, 10>>
    /\ candidates[b][2] = <<7, 10>>
    /\ candidates[c][2] = <<19, 20>>
    /\ Similar(candidates[a][1], candidates[b][1])
    /\ ~Similar(candidates[a][1], candidates[c][1])
    /\ ~Similar(candidates[b][1], candidates[c][1])

C4_DedupRepresentative ==
    DedupDone =>
        LET groups == dedup_groups(candidates, embeddings, config.dedupe_threshold)
        IN  /\ \A i \in 1..Len(candidates) :
                    (\A j \in 1..Len(candidates) :
                        j # i => ~Similar(candidates[i][1], candidates[j][1]))
                    => candidates[i] \in Range(deduped)
            /\ Len(groups) = Len(deduped)
            /\ UNION {groups[g].members : g \in 1..Len(groups)} = 1..Len(candidates)
            /\ \A g \in 1..Len(groups) :
                    /\ deduped[g] \in {candidates[m] : m \in groups[g].members}
                    /\ \A m \in groups[g].members :
                            RatGeq(deduped[g][2], candidates[m][2])
            /\ \A a, b, c \in 1..3 :
                    C4_Example(a, b, c) => Range(deduped) = {candidates[a], candidates[c]}

\* the three-chunk example with the lower-scoring duplicate B listed before A
C4_Witness ==
    /\ DedupDone
    /\ C4_Example(2, 1, 3)
    /\ Len(deduped) = 2

(***************************************************************************)
(* Properties of one retrieval call                                        *)
(***************************************************************************)
AfterExpand == pc \in {"dedupe", "select", "done"}

\* C2: when fewer than min_high_score candidates clear score_threshold at pool
\* size base_k the call issues exactly one expanded search, at pool size
\* 2 * base_k; when at least min_high_score clear it, it issues none; no call
\* issues more than one.
C2_ExpansionTrigger ==
    /\ Len(searches) <= 1
    /\ AfterExpand =>
        searches = IF Len(filtered) < config.min_high_score
                   THEN <<2 * config.base_k>> ELSE <<>>

\* some but too few candidates cleared the threshold and one search at 2N ran
C2_Witness ==
    /\ pc = "done"
    /\ Len(filtered) > 0
    /\ Len(filtered) < config.min_high_score
    /\ searches = <<2 * config.base_k>>

\* every chunk the indexes return, at pool size N or 2N, scores below the threshold
NothingClears ==
    \A c \in Range(initial_search(vectorstore, corpus_docs, bm25, bm25_scores, config))
             \cup Range(_run_vectorstore_search(vectorstore, config.base_k * 2)) :
        RatLess(c[2], config.score_threshold)

\* C5: a call for which no chunk returned by the index, at pool size N or 2N,
\* has a score >= score_threshold returns an empty list.
C5_EmptyWhenNothingClears ==
    (pc = "done" /\ NothingClears) => selected = <<>>

\* the near-duplicates of each chunk of the corpus
Duplicates == [a \in Chunks |-> {b \in Chunks : Similar(a, b)}]

\* near-duplicate clusters: similarity is transitive on the corpus
Clustered(dup) ==
    \A a \in Chunks : \A b \in dup[a] : dup[b] \subseteq dup[a]

\* no two entries of s are near-duplicates
PairwiseDissimilar(s, dup) ==
    \A i, j \in 1..Len(s) : i # j => s[j][1] \notin dup[s[i][1]]

C6_NearDuplicateDropped ==
    /\ pc = "done"
    /\ embeddings # <<>>
    /\ config.mmr_k = 3
    /\ Len(candidates) = 3
    /\ Len(selected) = 2
    /\ \A dup \in {Duplicates} :
            /\ Clustered(dup)
            /\ \E x, y \in Range(candidates) : x # y /\ y[1] \in dup[x[1]]

MmrDone == pc = "done" /\ deduped # <<>>

Docs(s) == {s[i][1] : i \in 1..Len(s)}

\* C7: with mmr_lambda = 1, mmr_selection returns exactly the min(mmr_k, n)
\* candidates of highest relevance, in descending relevance order, whatever
\* the similarities are.
C7_LambdaOneTopK ==
    (MmrDone /\ config.mmr_lambda = One) =>
        /\ Len(selected) = Min(config.mmr_k, Len(deduped))
        /\ Distinct(selected)
        /\ Range(selected) \subseteq Range(deduped)
        /\ \A t \in 1..(Len(selected) - 1) : RatGeq(selected[t][2], selected[t + 1][2])
        /\ \A c \in Range(deduped) \ Range(selected) :
                \A t \in 1..Len(selected) : RatGeq(selected[t][2], c[2])

\* the second pick is a near-duplicate of the first although a less similar
\* candidate of lower relevance was available
C7_Witness ==
    /\ MmrDone
    /\ config.mmr_lambda = One
    /\ Len(selected) = 2
    /\ \E c \in Range(deduped) \ Range(selected) :
            /\ RatLess(c[2], selected[2][2])
            /\ RatLess(cos_sim(embeddings[c[1]], embeddings[selected[1][1]]),
                       cos_sim(embeddings[selected[2][1]], embeddings[selected[1][1]]))

\* largest cosine similarity of doc to the first n picks
MaxSimToPicks(doc, n) ==
    LET sims == {cos_sim(embeddings[doc], embeddings[selected[t][1]]) : t \in 1..n}
    IN  CHOOSE m \in sims : \A o \in sims : RatLeq(o, m)

\* C8: with mmr_lambda = 0, the first pick is a candidate of highest relevance
\* and every later pick is an unselected candidate whose largest similarity to
\* the picks made so far is smallest among the unselected candidates.
C8_LambdaZeroDiversity ==
    (MmrDone /\ config.mmr_lambda = Zero /\ selected # <<>>) =>
        /\ Distinct(selected)
        /\ Range(selected) \subseteq Range(deduped)
        /\ \A c \in Range(deduped) : RatGeq(selected[1][2], c[2])
        /\ \A t \in 2..Len(selected) :
                \A c \in Range(deduped) \ {selected[u] : u \in 1..(t - 1)} :
                    RatLeq(MaxSimToPicks(selected[t][1], t - 1), MaxSimToPicks(c[1], t - 1))

\* the third pick has lower relevance than a candidate left unselected, which is
\* more similar to the first two picks
C8_Witness ==
    /\ MmrDone
    /\ config.mmr_lambda = Zero
    /\ Len(selected) >= 3
    /\ \E c \in Range(deduped) \ {selected[1], selected[2], selected[3]} :
            /\ RatLess(selected[3][2], c[2])
            /\ RatLess(MaxSimToPicks(selected[3][1], 2), MaxSimToPicks(c[1], 2))

(***************************************************************************)
(* Properties of the fusion engine                                         *)
(***************************************************************************)
FusionDone == pc = "filter" /\ config.use_hybrid /\ bm25 = "built"

\* 1-based rank of doc in the dense list of the fusion, 0 when absent
DenseRank(doc) ==
    LET hits == {i \in 1..Min(Len(vectorstore.ranking), 2 * config.base_k) :
                    vectorstore.ranking[i][1] = doc}
    IN  IF hits = {} THEN 0 ELSE CHOOSE i \in hits : TRUE

\* 1-based rank of doc in the lexical list of the fusion, 0 when absent: the
\* corpus ordered by BM25 score, best first, equal scores in corpus order
LexRank(doc) ==
    LET at == CHOOSE i \in 1..Len(corpus_docs) : corpus_docs[i] = doc
        ahead == {j \in 1..Len(corpus_docs) :
                    \/ RatLess(bm25_scores[at], bm25_scores[j])
                    \/ (bm25_scores[j] = bm25_scores[at] /\ j < at)}
        r == Cardinality(ahead) + 1
    IN  IF doc \notin Range(corpus_docs) \/ r > 2 * config.base_k THEN 0 ELSE r

ExpectedFused(doc) ==
    RatAdd(IF DenseRank(doc) = 0 THEN Zero
           ELSE Rat(config.embedding_weight[1],
                    config.embedding_weight[2] * (60 + DenseRank(doc))),
           IF LexRank(doc) = 0 THEN Zero
           ELSE Rat(config.bm25_weight[1],
                    config.bm25_weight[2] * (60 + LexRank(doc))))

\* C9: the fused score of every chunk is embedding_weight / (60 + r_dense) if it
\* is at rank r_dense of the dense list (else 0) plus bm25_weight / (60 + r_lex)
\* if it is at rank r_lex of the lexical list (else 0).
C9_FusedScore ==
    FusionDone =>
        LET rrf == rrf_scores(vectorstore, corpus_docs, bm25_scores, config)
        IN  /\ \A c \in Range(candidates) : c[2] = ExpectedFused(c[1])
            /\ \A c \in Range(rrf) : c[2] = ExpectedFused(c[1])
            /\ Docs(rrf) = {d \in Chunks : DenseRank(d) > 0 \/ LexRank(d) > 0}

\* one returned chunk is in both lists at different ranks, another in the
\* lexical list only
C9_Witness ==
    /\ FusionDone
    /\ \E c \in Range(candidates) :
            DenseRank(c[1]) > 0 /\ LexRank(c[1]) > 0 /\ DenseRank(c[1]) # LexRank(c[1])
    /\ \E c \in Range(candidates) : DenseRank(c[1]) = 0 /\ LexRank(c[1]) > 0

\* C10: the list returned by _hybrid_search has at most base_k entries, holds
\* no chunk twice and is in non-increasing fused-score order.
C10_FusionResultShape ==
    FusionDone =>
        /\ Len(candidates) <= config.base_k
        /\ \A i, j \in 1..Len(candidates) : candidates[i][1] = candidates[j][1] => i = j
        /\ NonIncreasing(candidates)

\* more chunks were fused than are returned, and the best one was not the
\* first to enter the fusion
C10_Witness ==
    /\ FusionDone
    /\ Len(candidates) = config.base_k
    /\ Len(candidates) >= 2
    /\ Len(rrf_scores(vectorstore, corpus_docs, bm25_scores, config)) > config.base_k
    /\ candidates[1] # rrf_scores(vectorstore, corpus_docs, bm25_scores, config)[1]

(***************************************************************************)
(* Context assembler (context.py)                                          *)
(*                                                                         *)
(* A text is [lead, sentences, trail]: `lead` and `trail` count its        *)
(* leading and trailing whitespace characters, `sentences` lists the       *)
(* lengths of its sentences, each ending in . ! or ? and holding no        *)
(* whitespace, consecutive sentences being one space apart.                *)
(***************************************************************************)
RECURSIVE SumSeq(_)
SumSeq(s) == IF s = <<>> THEN 0 ELSE Head(s) + SumSeq(Tail(s))

\* len(normalized): the length of text.strip()
StrippedLen(text) ==
    IF text.sentences = <<>> THEN 0
    ELSE SumSeq(text.sentences) + Len(text.sentences) - 1

\* len(text)
TextLen(text) == text.lead + StrippedLen(text) + text.trail

\* text.strip()
Strip(text) == [text EXCEPT !.lead = 0, !.trail = 0]

\* Python round(n / 4): to the nearest integer, halves to the even one
RoundQuarter(n) ==
    LET q == n \div 4
        r == n % 4
    IN  IF r < 2 THEN q
        ELSE IF r > 2 THEN q + 1
        ELSE IF q % 2 = 0 THEN q ELSE q + 1

\* context.py approximate_token_count, on the length of the text
approximate_token_count(len) ==
    IF len = 0 THEN 0
    ELSE IF RoundQuarter(len) < 1 THEN 1 ELSE RoundQuarter(len)

\* metadata value None
None == <<>>

\* context.py _coerce_token_estimate; value is None or <<n>> for the integer n
_coerce_token_estimate(value, text) ==
    IF value = None THEN approximate_token_count(TextLen(text)) ELSE value[1]

\* the loop `for sentence in sentences` of extractive_summary:
\* st = [summary_parts, tokens_used]
RECURSIVE summary_loop(_, _, _)
summary_loop(sentences, max_tokens, st) ==
    IF sentences = <<>> THEN st
    ELSE LET sentence_tokens == approximate_token_count(Head(sentences))
         IN  IF sentence_tokens = 0
             THEN summary_loop(Tail(sentences), max_tokens, st)
             ELSE IF st.tokens_used + sentence_tokens > max_tokens THEN st
             ELSE IF st.tokens_used + sentence_tokens >= max_tokens
             THEN [summary_parts |-> Append(st.summary_parts, Head(sentences)),
                   tokens_used |-> st.tokens_used + sentence_tokens]
             ELSE summary_loop(Tail(sentences), max_tokens,
                    [summary_parts |-> Append(st.summary_parts, Head(sentences)),
                     tokens_used |-> st.tokens_used + sentence_tokens])

\* context.py extractive_summary; the result is a text
extractive_summary(text, max_tokens) ==
    IF StrippedLen(text) = 0 THEN [lead |-> 0, sentences |-> <<>>, trail |-> 0]
    ELSE LET st == summary_loop(text.sentences, max_tokens,
                                [summary_parts |-> <<>>, tokens_used |-> 0])
         IN  IF st.summary_parts = <<>>
             THEN \* normalized[: max_tokens * 4].rstrip() for max_tokens >= 0: no
                  \* sentence fitted, so the first one is longer than max_tokens * 4
                  \* and the cut falls inside it
                  [lead |-> 0, trail |-> 0,
                   sentences |-> IF max_tokens * 4 <= 0 THEN <<>>
                                 ELSE <<Min(max_tokens * 4, text.sentences[1])>>]
             ELSE [lead |-> 0, sentences |-> st.summary_parts, trail |-> 0]

\* ContextAssemblyConfig.max_context_tokens
max_context_tokens(cfg) ==
    LET usable == cfg.model_context_tokens - cfg.prompt_reserved_tokens
    IN  IF usable < 512 THEN 512 ELSE usable

\* the budget test ignoring what is already used
over_budget_per_snippet(tokens_used, snippet_tokens, max_tokens) ==
    snippet_tokens > max_tokens

\* `if tokens_used + snippet_tokens > max_tokens: break`
over_budget(tokens_used, snippet_tokens, max_tokens) ==
    tokens_used + snippet_tokens > max_tokens

\* the loop passing over a snippet that does not fit (`continue`) instead of
\* stopping at it
\* idx counts from 1; st = [assembled, tokens_used, summaries_added]
RECURSIVE assemble_loop_skip(_, _, _, _)
assemble_loop_skip(entries, idx, st, cfg) ==
    IF idx > Len(entries) THEN st.assembled
    ELSE
    LET doc == entries[idx][1]
        raw_mode == idx - 1 < cfg.keep_raw_top_n
        summary == extractive_summary(doc.page_content, cfg.summary_max_tokens)
        snippet_text == IF raw_mode THEN Strip(doc.page_content) ELSE summary
        snippet_tokens == IF raw_mode THEN entries[idx][3]
                          ELSE approximate_token_count(TextLen(summary))
        summaries_added == IF raw_mode THEN st.summaries_added
                           ELSE st.summaries_added + 1
    IN  IF ~raw_mode /\ st.summaries_added >= cfg.summarize_low_n THEN st.assembled
        ELSE IF ~raw_mode /\ TextLen(summary) = 0
        THEN assemble_loop_skip(entries, idx + 1, st, cfg)
        ELSE IF snippet_tokens = 0
        THEN assemble_loop_skip(entries, idx + 1,
                           [st EXCEPT !.summaries_added = summaries_added], cfg)
        ELSE IF over_budget(st.tokens_used, snippet_tokens, max_context_tokens(cfg))
        THEN assemble_loop_skip(entries, idx + 1,
                           [st EXCEPT !.summaries_added = summaries_added], cfg)
        ELSE assemble_loop_skip(entries, idx + 1,
                [assembled |-> Append(st.assembled,
                    [text |-> snippet_text, score |-> entries[idx][2],
                     mode |-> IF raw_mode THEN "raw" ELSE "summary",
                     tokens |-> snippet_tokens, metadata |-> doc.metadata]),
                 tokens_used |-> st.tokens_used + snippet_tokens,
                 summaries_added |-> summaries_added], cfg)

\* the loop `for idx, (doc, score, token_estimate, metadata) in enumerate(entries)`
\* idx counts from 1; st = [assembled, tokens_used, summaries_added]
RECURSIVE assemble_loop(_, _, _, _)
assemble_loop(entries, idx, st, cfg) ==
    IF idx > Len(entries) THEN st.assembled
    ELSE
    LET doc == entries[idx][1]
        raw_mode == idx - 1 < cfg.keep_raw_top_n
        summary == extractive_summary(doc.page_content, cfg.summary_max_tokens)
        snippet_text == IF raw_mode THEN Strip(doc.page_content) ELSE summary
        snippet_tokens == IF raw_mode THEN entries[idx][3]
                          ELSE approximate_token_count(TextLen(summary))
        summaries_added == IF raw_mode THEN st.summaries_added
                           ELSE st.summaries_added + 1
    IN  IF ~raw_mode /\ st.summaries_added >= cfg.summarize_low_n THEN st.assembled
        ELSE IF ~raw_mode /\ TextLen(summary) = 0
        THEN assemble_loop(entries, idx + 1, st, cfg)
        ELSE IF snippet_tokens = 0
        THEN assemble_loop(entries, idx + 1,
                           [st EXCEPT !.summaries_added = summaries_added], cfg)
        ELSE IF over_budget(st.tokens_used, snippet_tokens, max_context_tokens(cfg))
        THEN st.assembled
        ELSE assemble_loop(entries, idx + 1,
                [assembled |-> Append(st.assembled,
                    [text |-> snippet_text, score |-> entries[idx][2],
                     mode |-> IF raw_mode THEN "raw" ELSE "summary",
                     tokens |-> snippet_tokens, metadata |-> doc.metadata]),
                 tokens_used |-> st.tokens_used + snippet_tokens,
                 summaries_added |-> summaries_added], cfg)

\* context.py assemble_with_token_budget
assemble_with_token_budget(ds, cfg) ==
    IF ds = <<>> THEN <<>>
    ELSE LET entries == [i \in 1..Len(ds) |->
                            <<ds[i], ds[i].metadata.retrieval_score,
                              _coerce_token_estimate(ds[i].metadata.chunk_length_tokens,
                                                     ds[i].page_content)>>]
         IN  assemble_loop(SortDesc(entries), 1,
                           [assembled |-> <<>>, tokens_used |-> 0, summaries_added |-> 0],
                           cfg)

Assemble ==
    /\ pc = "assemble"
    /\ assembled' = assemble_with_token_budget(docs, asm_config)
    /\ pc' = "assembled"
    /\ UNCHANGED <<config, embeddings, corpus_docs, bm25, vectorstore, bm25_scores,
                   candidates, filtered, searches, deduped, selected, docs, asm_config,
                   raw_config, calls, store, query,
                   chunking, tasks, requests, clock>>

\* longest document list given to the assembler
MaxDocs == 3

Text(lead, sentences, trail) == [lead |-> lead, sentences |-> sentences, trail |-> trail]

\* <<chunk_length_tokens, page_content>> of the documents under check
DocKinds ==
    {<<None, Text(1, <<5, 5, 5>>, 1)>>,
     <<None, Text(2, <<>>, 0)>>,
     <<<<0>>, Text(0, <<5, 5, 5>>, 0)>>,
     <<<<300>>, Text(0, <<1200>>, 0)>>,
     <<<<400>>, Text(0, <<400, 400, 800>>, 1)>>,
     <<<<250>>, Text(0, <<2000>>, 0)>>,
     <<<<-100>>, Text(0, <<5, 5, 5>>, 0)>>}

AssemblyDocs ==
    {[page_content |-> k[2],
      metadata |-> [retrieval_score |-> sc, chunk_length_tokens |-> k[1]]] :
        k \in DocKinds, sc \in {<<1, 2>>, <<9, 10>>}}

DefaultAssemblyConfig ==
    [model_context_tokens |-> 8192, prompt_reserved_tokens |-> 2000,
     keep_raw_top_n |-> 3, summarize_low_n |-> 7, summary_max_tokens |-> 120]

AssemblyConfigs ==
    {[DefaultAssemblyConfig EXCEPT !.model_context_tokens = m, !.keep_raw_top_n = r,
                                   !.summarize_low_n = l, !.summary_max_tokens = t] :
        m \in {2000, 8192}, r \in {1, 3}, l \in {1, 7}, t \in {3, 120}}

InitAssemble ==
    /\ docs \in UNION {[1..n -> AssemblyDocs] : n \in 0..MaxDocs}
    /\ asm_config \in AssemblyConfigs
    /\ raw_config = <<>>
    /\ calls = <<>>
    /\ store = <<>>
    /\ query = NoQuery
    /\ chunking = <<>>
    /\ tasks = <<>>
    /\ requests = <<>>
    /\ clock = 0
    /\ assembled = <<>>
    /\ pc = "assemble"
    /\ config = DefaultConfig
    /\ embeddings = <<>>
    /\ corpus_docs = <<>>
    /\ bm25 = "none"
    /\ vectorstore = NoStore
    /\ bm25_scores = <<>>
    /\ candidates = <<>>
    /\ filtered = <<>>
    /\ searches = <<>>
    /\ deduped = <<>>
    /\ selected = <<>>

SpecAssemble == InitAssemble /\ [][Assemble]_vars

RECURSIVE SumTokens(_)
SumTokens(snippets) ==
    IF snippets = <<>> THEN 0 ELSE Head(snippets).tokens + SumTokens(Tail(snippets))

\* C1: for every list of documents and every ContextAssemblyConfig, the sum of
\* the `tokens` fields of the snippets returned by assemble_with_token_budget is
\* at most config.max_context_tokens.
C1_TokenBudgetCeiling ==
    pc = "assembled" => SumTokens(assembled) <= max_context_tokens(asm_config)

\* snippets were assembled and a further raw document was left out because its
\* token estimate no longer fitted the budget
C1_Witness ==
    /\ pc = "assembled"
    /\ Len(assembled) >= 2
    /\ Len(assembled) < asm_config.keep_raw_top_n
    /\ \E i \in 1..Len(docs) :
            /\ docs[i].metadata.chunk_length_tokens # None
            /\ docs[i].metadata \notin {assembled[t].metadata : t \in 1..Len(assembled)}
            /\ SumTokens(assembled) + docs[i].metadata.chunk_length_tokens[1]
                    > max_context_tokens(asm_config)

(***************************************************************************)
(* Further properties of the fusion engine                                 *)
(***************************************************************************)
\* weight / (60 + rank): what one list at that rank contributes
Contribution(weight, rank) == Rat(weight[1], weight[2] * (60 + rank))

\* C11: with non-negative weights summing to 1, a chunk at rank r_d of the
\* dense list and at rank r_l of the lexical list has a fused score at least
\* embedding_weight / (60 + r_d), the score of a chunk in the dense list only at
\* rank r_d, and at least bm25_weight / (60 + r_l), the score of a chunk in the
\* lexical list only at rank r_l.
C11_FusionMonotone ==
    (FusionDone /\ RatAdd(config.bm25_weight, config.embedding_weight) = One
                /\ RatLeq(Zero, config.bm25_weight)
                /\ RatLeq(Zero, config.embedding_weight)) =>
        \A c \in Range(rrf_scores(vectorstore, corpus_docs, bm25_scores, config)) :
            (DenseRank(c[1]) > 0 /\ LexRank(c[1]) > 0) =>
                /\ RatGeq(c[2], Contribution(config.embedding_weight, DenseRank(c[1])))
                /\ RatGeq(c[2], Contribution(config.bm25_weight, LexRank(c[1])))

\* a returned chunk is in both lists and scores strictly more than a chunk in
\* either list alone at the same rank would
C11_Witness ==
    /\ FusionDone
    /\ \E c \in Range(candidates) :
            /\ DenseRank(c[1]) > 0
            /\ LexRank(c[1]) > 0
            /\ RatLess(Contribution(config.embedding_weight, DenseRank(c[1])), c[2])
            /\ RatLess(Contribution(config.bm25_weight, LexRank(c[1])), c[2])

(***************************************************************************)
(* Configuration loading (spec/models.py, spec/loader.py) and construction *)
(***************************************************************************)
\* validate_positive_int accepting 0
validate_positive_int_or_zero(v) == ~(v < 0)

\* RetrievalConfig.validate_positive_int: TRUE when the value is accepted
validate_positive_int(v) == ~(v <= 0)

\* RetrievalConfig.validate_threshold_range
validate_threshold_range(v) == RatLeq(Zero, v) /\ RatLeq(v, One)

\* RetrievalConfig.validate_mmr_lambda
validate_mmr_lambda(v) == RatLeq(Zero, v) /\ RatLeq(v, One)

\* RetrievalConfig.validate_weight_range
validate_weight_range(v) == RatLeq(Zero, v) /\ RatLeq(v, One)

\* RetrievalConfig.validate_weights_sum
validate_weights_sum(cfg) ==
    cfg.use_hybrid =>
        LET weight_sum == RatAdd(cfg.bm25_weight, cfg.embedding_weight)
        IN  RatLeq(<<19, 20>>, weight_sum) /\ RatLeq(weight_sum, <<21, 20>>)

\* RetrievalConfig.validate_mmr_k_vs_base_k
validate_mmr_k_vs_base_k(cfg) == ~(cfg.mmr_k > cfg.base_k)

\* RetrievalConfig(**cfg_dict): TRUE when no validator raises
RetrievalConfig(cfg) ==
    /\ validate_positive_int(cfg.base_k)
    /\ validate_positive_int(cfg.min_high_score)
    /\ validate_positive_int(cfg.mmr_k)
    /\ validate_threshold_range(cfg.score_threshold)
    /\ validate_threshold_range(cfg.dedupe_threshold)
    /\ validate_mmr_lambda(cfg.mmr_lambda)
    /\ validate_weight_range(cfg.bm25_weight)
    /\ validate_weight_range(cfg.embedding_weight)
    /\ validate_weights_sum(cfg)
    /\ validate_mmr_k_vs_base_k(cfg)

\* no AdaptiveRetriever constructed yet
NoConfig == <<>>

\* load_retrieval_config: RetrievalConfig.from_yaml raises, or the validated
\* values become an AdaptiveRetrieverConfig
LoadConfig ==
    /\ pc = "load"
    /\ IF RetrievalConfig(raw_config)
       THEN pc' = "construct"
       ELSE pc' = "failed"
    /\ UNCHANGED <<config, embeddings, corpus_docs, bm25, vectorstore, bm25_scores,
                   candidates, filtered, searches, deduped, selected, docs, asm_config,
                   assembled, raw_config, calls, store, query,
                   chunking, tasks, requests, clock>>

\* AdaptiveRetriever(vectorstore, embeddings, config=retrieval_cfg) of server.py
\* and executor.py, with _initialize_bm25
Construct ==
    /\ pc = "construct"
    /\ config' = raw_config
    /\ \E outcome \in initialize_bm25_outcomes(raw_config) :
        /\ corpus_docs' = corpus_after(outcome)
        /\ bm25' = bm25_after(outcome)
    /\ pc' = "idle"
    /\ UNCHANGED <<embeddings, vectorstore, bm25_scores, candidates, filtered, searches,
                   deduped, selected, docs, asm_config, assembled, raw_config, calls, store, query,
                   chunking, tasks, requests, clock>>

\* AdaptiveRetriever(vectorstore, embeddings) of main.py: config is None and the
\* defaults of AdaptiveRetrieverConfig are taken
ConstructDefault ==
    /\ pc = "main"
    /\ config' = DefaultConfig
    /\ \E outcome \in initialize_bm25_outcomes(DefaultConfig) :
        /\ corpus_docs' = corpus_after(outcome)
        /\ bm25' = bm25_after(outcome)
    /\ pc' = "idle"
    /\ UNCHANGED <<embeddings, vectorstore, bm25_scores, candidates, filtered, searches,
                   deduped, selected, docs, asm_config, assembled, raw_config, calls, store, query,
                   chunking, tasks, requests, clock>>

\* values a configuration file may give
RawCounts == (-1)..(MaxBaseK + 1)
RawWeights == {<<-1, 10>>, Zero, <<1, 2>>, One, <<11, 10>>}

RawConfigs ==
    {[DefaultConfig EXCEPT !.base_k = b, !.mmr_k = k, !.min_high_score = m,
                           !.score_threshold = t, !.dedupe_threshold = d,
                           !.mmr_lambda = l, !.use_hybrid = h,
                           !.bm25_weight = w[1], !.embedding_weight = w[2]] :
        b \in RawCounts, k \in RawCounts, m \in RawCounts,
        t \in {<<-1, 10>>, <<3, 20>>}, d \in {<<22, 25>>, <<11, 10>>},
        l \in {<<3, 5>>, <<11, 10>>}, h \in BOOLEAN, w \in RawWeights \X RawWeights}

InitConfig ==
    /\ \/ pc = "load" /\ raw_config \in RawConfigs
       \/ pc = "main" /\ raw_config = <<>>
    /\ config = NoConfig
    /\ corpus_docs = <<>>
    /\ bm25 = "none"
    /\ embeddings = <<>>
    /\ vectorstore = NoStore
    /\ bm25_scores = <<>>
    /\ candidates = <<>>
    /\ filtered = <<>>
    /\ searches = <<>>
    /\ deduped = <<>>
    /\ selected = <<>>
    /\ docs = <<>>
    /\ asm_config = <<>>
    /\ assembled = <<>>
    /\ calls = <<>>
    /\ store = <<>>
    /\ query = NoQuery
    /\ chunking = <<>>
    /\ tasks = <<>>
    /\ requests = <<>>
    /\ clock = 0

SpecConfig == InitConfig /\ [][LoadConfig \/ Construct \/ ConstructDefault]_vars

InUnit(v) == RatLeq(Zero, v) /\ RatLeq(v, One)

\* the constraints the claim lists, on a configuration
Constrained(cfg) ==
    /\ cfg.use_hybrid =>
        /\ RatLeq(<<95, 100>>, RatAdd(cfg.bm25_weight, cfg.embedding_weight))
        /\ RatLeq(RatAdd(cfg.bm25_weight, cfg.embedding_weight), <<105, 100>>)
    /\ cfg.mmr_k <= cfg.base_k
    /\ cfg.base_k >= 1 /\ cfg.mmr_k >= 1 /\ cfg.min_high_score >= 1
    /\ InUnit(cfg.score_threshold) /\ InUnit(cfg.dedupe_threshold)
    /\ InUnit(cfg.mmr_lambda) /\ InUnit(cfg.bm25_weight) /\ InUnit(cfg.embedding_weight)

\* C13: no engine is constructed with a configuration that violates a
\* validated constraint (hybrid weights summing outside [0.95, 1.05],
\* mmr_k > base_k, a non-positive count, a threshold, mmr_lambda or weight
\* outside [0, 1]); loading such a configuration fails and no engine exists.
C13_ValidatedConstruction ==
    /\ pc = "idle" => Constrained(config)
    /\ (pc \in {"load", "construct", "failed"} /\ ~Constrained(raw_config)) =>
            pc # "construct" /\ config = NoConfig

\* a file whose only fault is mmr_k > base_k was refused, no engine exists
C13_Witness ==
    /\ pc = "failed"
    /\ config = NoConfig
    /\ raw_config.mmr_k > raw_config.base_k
    /\ Constrained([raw_config EXCEPT !.mmr_k = 1])

\* C14: every accepted configuration has 1 <= min_high_score <= base_k.
C14_MinHighScoreWithinPool ==
    pc = "idle" => (1 <= config.min_high_score /\ config.min_high_score <= config.base_k)

(***************************************************************************)
(* Search, filter and expansion alone                                      *)
(***************************************************************************)
\* relevance scores of the dense index, below and above the fused scores
ExpansionScores == {<<1, 1000>>, <<9, 10>>}

\* the dense index answers distinct documents in any order, best score first
ExpansionStores ==
    {[relevance |-> TRUE, ranking |-> r] :
        r \in {x \in UNION {[1..n -> Chunks \X ExpansionScores] : n \in 0..NumChunks} :
                    /\ \A i, j \in 1..Len(x) : x[i][1] = x[j][1] => i = j
                    /\ NonIncreasing(x)}}

InitExpansion ==
    /\ config \in {[DefaultConfig EXCEPT !.base_k = b, !.min_high_score = m,
                                         !.score_threshold = t, !.use_hybrid = h] :
                        b \in 1..MaxBaseK, m \in {1, MaxBaseK + 1},
                        t \in {<<1, 125>>, <<3, 20>>}, h \in BOOLEAN}
    /\ corpus_docs = IF config.use_hybrid THEN [i \in 1..NumChunks |-> i] ELSE <<>>
    /\ bm25 = IF config.use_hybrid THEN "built" ELSE "none"
    /\ vectorstore \in ExpansionStores
    /\ bm25_scores \in IF config.use_hybrid THEN [1..NumChunks -> Bm25Levels] ELSE {<<>>}
    /\ pc = "search"
    /\ embeddings = <<>>
    /\ candidates = <<>>
    /\ filtered = <<>>
    /\ searches = <<>>
    /\ deduped = <<>>
    /\ selected = <<>>
    /\ docs = <<>>
    /\ asm_config = <<>>
    /\ raw_config = <<>>
    /\ calls = <<>>
    /\ store = <<>>
    /\ query = TextQuery
    /\ chunking = <<>>
    /\ tasks = <<>>
    /\ requests = <<>>
    /\ clock = 0
    /\ assembled = <<>>

SpecExpansion == InitExpansion /\ [][Search \/ Filter \/ Expand]_vars

\* the expansion branch has run
Expanded == pc \in {"dedupe", "done"} /\ searches # <<>>

\* score of doc in a list of pairs holding it
ScoreIn(list, doc) == list[RankOf(list, doc)][2]

\* C18: when expansion merges the expanded results with the filtered candidates
\* and a chunk is in both, the merged list holds the chunk once, with the
\* higher of its two scores.
C18_MergeKeepsHigherScore ==
    Expanded =>
        LET expanded == _run_vectorstore_search(vectorstore, config.base_k * 2)
        IN  \A d \in Docs(filtered) \cap Docs(expanded) :
                /\ Cardinality({i \in 1..Len(candidates) : candidates[i][1] = d}) = 1
                /\ RatLeq(ScoreIn(filtered, d), ScoreIn(candidates, d))
                /\ RatLeq(ScoreIn(expanded, d), ScoreIn(candidates, d))

\* C19: when expansion triggers in hybrid mode, the expanded search is the
\* fusion at the doubled pool size: every merged candidate is a filtered
\* candidate or carries its fused score of the fusion at pool size 2N.
C19_ExpansionRerunsFusion ==
    (Expanded /\ config.use_hybrid /\ bm25 = "built") =>
        LET doubled == [config EXCEPT !.base_k = 2 * config.base_k]
            fused == _hybrid_search(vectorstore, corpus_docs, bm25_scores, doubled)
        IN  \A c \in Range(candidates) : c \in Range(filtered) \/ c \in Range(fused)

\* the order the tie-break rule gives two fused chunks: higher fused score
\* first; on equal scores the smaller dense rank, a chunk of the dense list
\* before one absent from it; chunks absent from the dense list by identity
TieBreakBefore(a, b) ==
    \/ RatLess(b[2], a[2])
    \/ /\ a[2] = b[2]
       /\ \/ DenseRank(a[1]) > 0 /\ (DenseRank(b[1]) = 0 \/ DenseRank(a[1]) < DenseRank(b[1]))
          \/ DenseRank(a[1]) = 0 /\ DenseRank(b[1]) = 0 /\ a[1] < b[1]

\* C20: the fusion orders chunks by fused score descending, chunks of equal
\* fused score by dense rank, and chunks still tied by chunk identity: the
\* returned list is in that order and holds the first base_k chunks of it.
C20_FusionTieBreaks ==
    FusionDone =>
        /\ \A i, j \in 1..Len(candidates) :
                i < j => TieBreakBefore(candidates[i], candidates[j])
        /\ \A c \in Range(rrf_scores(vectorstore, corpus_docs, bm25_scores, config))
                        \ Range(candidates) :
                \A r \in Range(candidates) : TieBreakBefore(r, c)

(***************************************************************************)
(* Retrieval through the query enricher (enricher.py)                      *)
(***************************************************************************)
\* sub-queries of one request
NumSubqueries == 2

\* relevance of a chunk to a sub-query, as a pairwise relevance model scores it
PairScores == {<<1, 10>>, <<9, 10>>}

\* align_query (enricher.py 32-43): the agent is created and asked, then
\* agent_ouptut.requirement is read for the log (line 39) and
\* agent_ouptut.requirements is returned. It raises when the agent cannot be
\* created or its answer has no attribute `requirement`, as with the
\* repository's SemanticAlignmentAgentOutputModel; it returns the list when the
\* answer offers both attributes
align_query_outcomes == {"raised", "returned"}

\* QueryEnricher.get_retrieved_artifacts: align_query raises and the engine is
\* never called, or it returns the list agent_output.requirements and the list
\* itself is handed to retriever.invoke
GetRetrievedArtifacts ==
    /\ pc = "idle"
    /\ \E outcome \in align_query_outcomes :
        IF outcome = "raised"
        THEN /\ pc' = "raised"
             /\ UNCHANGED <<vectorstore, bm25_scores, query>>
        ELSE /\ \E vs \in Vectorstores : vectorstore' = vs
             /\ \E sc \in Bm25Answers : bm25_scores' = sc
             /\ \E rel \in [Chunks -> [1..NumSubqueries -> PairScores]] :
                    query' = [kind |-> "subqueries", relevance |-> rel,
                              rerank_threshold |-> <<3, 10>>]
             /\ pc' = "search"
    /\ UNCHANGED <<config, embeddings, corpus_docs, bm25, candidates, filtered,
                   searches, deduped, selected, docs, asm_config, assembled,
                   raw_config, calls, store,
                   chunking, tasks, requests, clock>>

\* the engine as main.py and server.py construct it, hybrid or dense-only
InitEnricher ==
    /\ config \in {[DefaultConfig EXCEPT !.base_k = MaxBaseK, !.min_high_score = 1,
                                         !.mmr_k = MaxBaseK, !.use_hybrid = h] :
                        h \in BOOLEAN}
    /\ \E outcome \in initialize_bm25_outcomes(config) :
        /\ corpus_docs = corpus_after(outcome)
        /\ bm25 = bm25_after(outcome)
    /\ embeddings = <<>>
    /\ vectorstore = NoStore
    /\ bm25_scores = <<>>
    /\ pc = "idle"
    /\ candidates = <<>>
    /\ filtered = <<>>
    /\ searches = <<>>
    /\ deduped = <<>>
    /\ selected = <<>>
    /\ docs = <<>>
    /\ asm_config = <<>>
    /\ assembled = <<>>
    /\ raw_config = <<>>
    /\ calls = <<>>
    /\ store = <<>>
    /\ query = NoQuery
    /\ chunking = <<>>
    /\ tasks = <<>>
    /\ requests = <<>>
    /\ clock = 0

SpecEnricher ==
    InitEnricher /\ [][GetRetrievedArtifacts \/ Search \/ Filter \/ Expand
                       \/ Deduplicate \/ Select]_vars

\* the largest of a chunk's scores over the sub-queries
Pooled(doc) ==
    CHOOSE m \in {query.relevance[doc][q] : q \in 1..NumSubqueries} :
        \A q \in 1..NumSubqueries : RatLeq(query.relevance[doc][q], m)

\* C17: a call that carries several sub-queries returns its candidate chunks
\* with, as score, the maximum of their pairwise scores over the sub-queries,
\* without the chunks whose maximum is below rerank_threshold, in descending
\* order of that score.
C17_MaxPoolRerank ==
    (query.kind = "subqueries" /\ pc \in {"raised", "done"}) =>
        /\ pc = "done"
        /\ \A c \in Range(selected) :
                c[2] = Pooled(c[1]) /\ RatGeq(c[2], query.rerank_threshold)
        /\ \A c \in Range(candidates) :
                RatGeq(Pooled(c[1]), query.rerank_threshold) => c[1] \in Docs(selected)
        /\ NonIncreasing(selected)


(***************************************************************************)
(* One engine, several callers: server.py starts one background task per   *)
(* request and every task calls the retriever of app.state in its own      *)
(* thread (asyncio.to_thread)                                              *)
(***************************************************************************)
\* the callers
Calls == {1, 2}

\* doc.metadata of the chunks the indexes hold
StoredMetadata == [d \in Chunks |-> [source |-> d, retrieval_score |-> None]]

\* the local variables of one call of invoke
IdleCall ==
    [pc |-> "idle", vectorstore |-> NoStore, bm25_scores |-> <<>>, lexical |-> FALSE,
     candidates |-> <<>>, deduped |-> <<>>, selected |-> <<>>, result |-> <<>>]

\* adaptive_retrieval from its first search to its return
adaptive_retrieval(vs, scores, corpus, index, emb, cfg) ==
    LET found == initial_search(vs, corpus, index, scores, cfg)
        kept == threshold_filter(found, cfg)
        cands == IF needs_expansion(kept, cfg) THEN expand_candidates(kept, vs, cfg) ELSE kept
    IN  IF cands = <<>> THEN <<>>
        ELSE LET dd == deduplicate_chunks(cands, emb, cfg.dedupe_threshold)
             IN  IF dd = <<>> THEN <<>>
                 ELSE mmr_selection(dd, emb, cfg.mmr_k, cfg.mmr_lambda)

\* the documents invoke returns: a copy of each chunk's metadata with the
\* retrieval score added
invoke_documents(ranked, st) ==
    [i \in 1..Len(ranked) |->
        [doc |-> ranked[i][1],
         metadata |-> [st[ranked[i][1]] EXCEPT !.retrieval_score = <<ranked[i][2]>>]]]

\* invoke with `metadata = doc.metadata`: the score is written into the
\* stored chunk
stored_metadata_written(st, ranked) ==
    [d \in DOMAIN st |->
        IF \E i \in 1..Len(ranked) : ranked[i][1] = d
        THEN [st[d] EXCEPT !.retrieval_score =
                    <<ranked[CHOOSE i \in 1..Len(ranked) : ranked[i][1] = d][2]>>]
        ELSE st[d]]

\* the stored metadata after invoke: `metadata = dict(doc.metadata)` is a copy,
\* the chunk keeps its own
stored_metadata_after_invoke(st, ranked) == st

\* what the lexical index answers to a caller's query
CallBm25Answers ==
    IF bm25 = "none" THEN {<<>>}
    ELSE {[i \in 1..Len(corpus_docs) |-> Zero],
          [i \in 1..Len(corpus_docs) |-> IF i = Len(corpus_docs) THEN One ELSE Zero]}

\* a caller enters invoke; its query fixes what the two indexes answer to it
CallInvoke(c) ==
    /\ pc = "idle"
    /\ calls[c].pc \in {"idle", "returned", "raised"}
    /\ \E vs \in Vectorstores : \E sc \in CallBm25Answers :
        calls' = [calls EXCEPT ![c] =
                    [IdleCall EXCEPT !.pc = "search", !.vectorstore = vs, !.bm25_scores = sc]]
    /\ UNCHANGED <<config, embeddings, corpus_docs, bm25, vectorstore, bm25_scores, pc,
                   candidates, filtered, searches, deduped, selected, docs, asm_config,
                   assembled, raw_config, store, query,
                   chunking, tasks, requests, clock>>

\* lines 92-99
CallSearch(c) ==
    /\ calls[c].pc = "search"
    /\ \E outcome \in search_outcomes(TextQuery, config, bm25) :
        IF outcome = "raised"
        THEN calls' = [calls EXCEPT ![c].pc = "raised",
                                    ![c].lexical = uses_lexical(config, bm25)]
        ELSE calls' = [calls EXCEPT
                ![c].pc = "filter",
                ![c].lexical = uses_lexical(config, bm25),
                ![c].candidates = initial_search(calls[c].vectorstore, corpus_docs, bm25,
                                                 calls[c].bm25_scores, config)]
    /\ UNCHANGED <<config, embeddings, corpus_docs, bm25, vectorstore, bm25_scores, pc,
                   candidates, filtered, searches, deduped, selected, docs, asm_config,
                   assembled, raw_config, store, query,
                   chunking, tasks, requests, clock>>

\* lines 102-106
CallFilter(c) ==
    /\ calls[c].pc = "filter"
    /\ calls' = [calls EXCEPT ![c].pc = "expand",
                              ![c].candidates = threshold_filter(calls[c].candidates, config)]
    /\ UNCHANGED <<config, embeddings, corpus_docs, bm25, vectorstore, bm25_scores, pc,
                   candidates, filtered, searches, deduped, selected, docs, asm_config,
                   assembled, raw_config, store, query,
                   chunking, tasks, requests, clock>>

\* lines 109-122
CallExpand(c) ==
    /\ calls[c].pc = "expand"
    /\ LET cands == IF needs_expansion(calls[c].candidates, config)
                    THEN expand_candidates(calls[c].candidates, calls[c].vectorstore, config)
                    ELSE calls[c].candidates
       IN  calls' = [calls EXCEPT ![c].candidates = cands,
                                  ![c].pc = IF cands = <<>> THEN "return" ELSE "dedupe"]
    /\ UNCHANGED <<config, embeddings, corpus_docs, bm25, vectorstore, bm25_scores, pc,
                   candidates, filtered, searches, deduped, selected, docs, asm_config,
                   assembled, raw_config, store, query,
                   chunking, tasks, requests, clock>>

\* lines 125-131
CallDeduplicate(c) ==
    /\ calls[c].pc = "dedupe"
    /\ LET dd == deduplicate_chunks(calls[c].candidates, embeddings, config.dedupe_threshold)
       IN  calls' = [calls EXCEPT ![c].deduped = dd,
                                  ![c].pc = IF dd = <<>> THEN "return" ELSE "select"]
    /\ UNCHANGED <<config, embeddings, corpus_docs, bm25, vectorstore, bm25_scores, pc,
                   candidates, filtered, searches, deduped, selected, docs, asm_config,
                   assembled, raw_config, store, query,
                   chunking, tasks, requests, clock>>

\* lines 134-140
CallSelect(c) ==
    /\ calls[c].pc = "select"
    /\ calls' = [calls EXCEPT
            ![c].selected = mmr_selection(calls[c].deduped, embeddings,
                                          config.mmr_k, config.mmr_lambda),
            ![c].pc = "return"]
    /\ UNCHANGED <<config, embeddings, corpus_docs, bm25, vectorstore, bm25_scores, pc,
                   candidates, filtered, searches, deduped, selected, docs, asm_config,
                   assembled, raw_config, store, query,
                   chunking, tasks, requests, clock>>

\* lines 72-82
CallReturn(c) ==
    /\ calls[c].pc = "return"
    /\ calls' = [calls EXCEPT ![c].result = invoke_documents(calls[c].selected, store),
                              ![c].pc = "returned"]
    /\ store' = stored_metadata_after_invoke(store, calls[c].selected)
    /\ UNCHANGED <<config, embeddings, corpus_docs, bm25, vectorstore, bm25_scores, pc,
                   candidates, filtered, searches, deduped, selected, docs, asm_config,
                   assembled, raw_config, query,
                   chunking, tasks, requests, clock>>

\* the vectors of the embedding model: all chunks apart, or all chunks alike
SharedEmbeddings ==
    {[d \in Chunks |-> IF d % 3 = 1 THEN <<4, 3>> ELSE IF d % 3 = 2 THEN <<3, 4>> ELSE <<5, 12>>],
     [d \in Chunks |-> <<4, 3>>]}

\* configurations the server's engine is built with
SharedConfigs ==
    {[DefaultConfig EXCEPT !.base_k = MaxBaseK, !.min_high_score = 1, !.mmr_k = MaxBaseK,
                           !.score_threshold = t, !.use_hybrid = h] :
        t \in {<<1, 125>>, <<3, 20>>}, h \in BOOLEAN}

InitConcurrent ==
    /\ raw_config \in SharedConfigs
    /\ embeddings \in SharedEmbeddings
    /\ store = StoredMetadata
    /\ calls = [c \in Calls |-> IdleCall]
    /\ pc = "construct"
    /\ config = NoConfig
    /\ corpus_docs = <<>>
    /\ bm25 = "none"
    /\ vectorstore = NoStore
    /\ bm25_scores = <<>>
    /\ candidates = <<>>
    /\ filtered = <<>>
    /\ searches = <<>>
    /\ deduped = <<>>
    /\ selected = <<>>
    /\ docs = <<>>
    /\ asm_config = <<>>
    /\ query = NoQuery
    /\ chunking = <<>>
    /\ tasks = <<>>
    /\ requests = <<>>
    /\ clock = 0
    /\ assembled = <<>>

CallStep(c) ==
    \/ CallInvoke(c)
    \/ CallSearch(c)
    \/ CallFilter(c)
    \/ CallExpand(c)
    \/ CallDeduplicate(c)
    \/ CallSelect(c)
    \/ CallReturn(c)

SpecConcurrent == InitConcurrent /\ [][Construct \/ \E c \in Calls : CallStep(c)]_vars

\* C15: when the lexical index is missing after construction (the build
\* raised, or the docstore gave no corpus), construction has still succeeded
\* and no call of the engine raises, none takes the lexical branch, and no
\* step of a call builds the index
C15_DenseOnlyFallback ==
    /\ [](pc = "idle" /\ config.use_hybrid /\ bm25 = "none"
            => \A c \in Calls : calls[c].pc # "raised" /\ ~calls[c].lexical)
    /\ [][pc = "idle" /\ bm25 = "none" => bm25' = "none" /\ corpus_docs' = corpus_docs]_vars

\* a hybrid engine without lexical index has answered one caller from the
\* dense index while another caller is searching
C15_Witness ==
    /\ pc = "idle" /\ config.use_hybrid /\ bm25 = "none"
    /\ \E c \in Calls, d \in Calls :
        /\ calls[c].pc = "returned" /\ calls[c].result # <<>>
        /\ calls[d].pc = "filter" /\ calls[d].candidates # <<>>

\* the shared state of the engine
Shared == <<config, bm25, corpus_docs, embeddings, store>>

\* what a call returns when it is the only one running
AloneResult(c) ==
    invoke_documents(
        adaptive_retrieval(calls[c].vectorstore, calls[c].bm25_scores, corpus_docs, bm25,
                           embeddings, config),
        StoredMetadata)

\* C16: no step of a retrieval call writes the shared state of the engine,
\* and whatever the interleaving each call returns what it returns alone
C16_CallsShareNothingWritten ==
    /\ [][pc = "idle" => UNCHANGED Shared]_vars
    /\ [](\A c \in Calls : calls[c].pc = "returned" => calls[c].result = AloneResult(c))

\* one caller has returned chunks while the other, which asked for an
\* overlapping set of chunks, is between two of its steps
C16_Witness ==
    \E c \in Calls, d \in Calls :
        /\ calls[c].pc = "returned" /\ calls[c].result # <<>>
        /\ calls[d].pc \in {"dedupe", "select", "return"}
        /\ \E i \in 1..Len(calls[c].result), j \in 1..Len(calls[d].candidates) :
                calls[c].result[i].doc = calls[d].candidates[j][1]
        /\ calls[c].vectorstore # calls[d].vectorstore


(***************************************************************************)
(* The greedy rule of the diversifier                                      *)
(***************************************************************************)
\* mmr_lambda * relevance(c) - (1 - mmr_lambda) * max similarity of c to the
\* first n picks
MmrValue(c, n) ==
    RatSub(RatMul(config.mmr_lambda, c[2]),
           RatMul(RatSub(One, config.mmr_lambda), MaxSimToPicks(c[1], n)))

\* place of a candidate in the input list of mmr_selection
PosIn(c) == CHOOSE i \in 1..Len(deduped) : deduped[i] = c

RatSame(x, y) == ~RatLess(x, y) /\ ~RatLess(y, x)

\* C21: the first pick of mmr_selection has maximal relevance, every later
\* pick maximizes mmr_lambda * relevance - (1 - mmr_lambda) * max similarity
\* to the picks made before it among the candidates not yet picked, among
\* equal values the candidate earliest in the input is taken, and no candidate
\* is picked twice.
C21_GreedyMmrRule ==
    (MmrDone /\ selected # <<>>) =>
        /\ Distinct(selected)
        /\ Range(selected) \subseteq Range(deduped)
        /\ \A c \in Range(deduped) :
                /\ RatGeq(selected[1][2], c[2])
                /\ RatSame(selected[1][2], c[2]) => PosIn(selected[1]) <= PosIn(c)
        /\ \A t \in 2..Len(selected) :
                \A c \in Range(deduped) \ {selected[u] : u \in 1..(t - 1)} :
                    /\ RatGeq(MmrValue(selected[t], t - 1), MmrValue(c, t - 1))
                    /\ RatSame(MmrValue(selected[t], t - 1), MmrValue(c, t - 1))
                            => PosIn(selected[t]) <= PosIn(c)

\* with a trade-off strictly between 0 and 1, the second pick was tied with a
\* later candidate and was preferred to a candidate of the same relevance that
\* is more similar to the first pick
C21_Witness ==
    /\ MmrDone
    /\ config.mmr_lambda = <<3, 5>>
    /\ Len(selected) >= 2
    /\ \E c \in Range(deduped) \ {selected[1], selected[2]} :
            /\ RatSame(MmrValue(selected[2], 1), MmrValue(c, 1))
            /\ PosIn(selected[2]) < PosIn(c)
    /\ \E c \in Range(deduped) \ {selected[1], selected[2]} :
            /\ RatSame(selected[2][2], c[2])
            /\ RatLess(MmrValue(c, 1), MmrValue(selected[2], 1))

\* C22: after the seed, mmr_selection never adds a candidate whose MMR score
\* is zero or negative: it stops as soon as no remaining candidate has a
\* positive score.
C22_StopsWithoutPositiveScore ==
    MmrDone =>
        \A t \in 2..Len(selected) : RatLess(Zero, MmrValue(selected[t], t - 1))


(***************************************************************************)
(* The deduplicator and the order of its input                             *)
(***************************************************************************)
\* the orders a list of n candidates can be given in
Orders(n) == {f \in [1..n -> 1..n] : \A i, j \in 1..n : f[i] = f[j] => i = j}

\* C23: deduplicate_chunks returns the same set of representatives for every
\* order in which the same candidates are handed to it.
C23_DedupOrderIndependent ==
    DedupDone =>
        \A f \in Orders(Len(candidates)) :
            Range(deduplicate_chunks([i \in 1..Len(candidates) |-> candidates[f[i]]],
                                     embeddings, config.dedupe_threshold))
                = Range(deduped)


(***************************************************************************)
(* Further properties of the context assembler                             *)
(***************************************************************************)
\* the documents in the order the assembler walks them: <<doc, score, estimate>>
RankedDocs ==
    SortDesc([i \in 1..Len(docs) |->
                <<docs[i], docs[i].metadata.retrieval_score,
                  _coerce_token_estimate(docs[i].metadata.chunk_length_tokens,
                                         docs[i].page_content)>>])

\* ways of reading the snippets as documents of the ranking, in order
Placements(ranked) ==
    {g \in [1..Len(assembled) -> 1..Len(ranked)] :
        /\ \A i, j \in 1..Len(assembled) : i < j => g[i] < g[j]
        /\ \A i \in 1..Len(assembled) :
                /\ assembled[i].metadata = ranked[g[i]][1].metadata
                /\ assembled[i].score = ranked[g[i]][2]}

\* C24: a snippet is raw exactly when its document is one of the
\* keep_raw_top_n best-scoring documents, and then costs the chunk's own token
\* estimate; a summary snippet comes from one of the next summarize_low_n
\* documents; no document ranked after place keep_raw_top_n + summarize_low_n
\* is included.
C24_RawAndSummaryRanks ==
    pc = "assembled" =>
        LET ranked == RankedDocs
        IN  \E g \in Placements(ranked) :
                \A i \in 1..Len(assembled) :
                    /\ assembled[i].mode = "raw" <=> g[i] <= asm_config.keep_raw_top_n
                    /\ assembled[i].mode = "raw" => assembled[i].tokens = ranked[g[i]][3]
                    /\ g[i] <= asm_config.keep_raw_top_n + asm_config.summarize_low_n

\* what each document of the ranking costs when it is emitted
SnippetCosts(ranked) ==
    [p \in 1..Len(ranked) |->
        IF p <= asm_config.keep_raw_top_n THEN ranked[p][3]
        ELSE approximate_token_count(
                TextLen(extractive_summary(ranked[p][1].page_content,
                                           asm_config.summary_max_tokens)))]

\* tokens of the snippets placed before p
RECURSIVE UsedBefore(_, _, _)
UsedBefore(g, p, i) ==
    IF i > Len(assembled) \/ g[i] >= p THEN 0
    ELSE assembled[i].tokens + UsedBefore(g, p, i + 1)

\* the document at place p does not fit what is left of the budget
DoesNotFit(costs, g, p) ==
    /\ costs[p] > 0
    /\ UsedBefore(g, p, 1) + costs[p] > max_context_tokens(asm_config)

\* C25: the snippets come out in non-increasing score order, and once a
\* document does not fit the remaining budget neither it nor any document
\* ranked after it is included, even one that would fit.
C25_StopsAtFirstOverBudget ==
    pc = "assembled" =>
        /\ \A i \in 1..(Len(assembled) - 1) :
                RatGeq(assembled[i].score, assembled[i + 1].score)
        /\ LET ranked == RankedDocs
               costs == SnippetCosts(ranked)
           IN  \E g \in Placements(ranked) :
                    \A p \in 1..Len(docs) :
                        DoesNotFit(costs, g, p) => \A i \in 1..Len(assembled) : g[i] < p

\* a document did not fit and a document ranked after it, which would have
\* fitted, was left out
C25_Witness ==
    /\ pc = "assembled"
    /\ assembled # <<>>
    /\ LET ranked == RankedDocs
           costs == SnippetCosts(ranked)
       IN  /\ Placements(ranked) # {}
           /\ \A g \in Placements(ranked) :
                \E p \in 1..Len(docs) : \E q \in (p + 1)..Len(docs) :
                    /\ DoesNotFit(costs, g, p)
                    /\ costs[q] > 0
                    /\ UsedBefore(g, p, 1) + costs[q] <= max_context_tokens(asm_config)
                    /\ \A i \in 1..Len(assembled) : g[i] < p

\* C26: every snippet of mode summary is charged at most summary_max_tokens
\* tokens: the token count of an extractive summary never exceeds the cap the
\* summary was built under.
C26_SummaryWithinCap ==
    pc = "assembled" =>
        \A i \in 1..Len(assembled) :
            assembled[i].mode = "summary"
                => assembled[i].tokens <= asm_config.summary_max_tokens


\* C27: what is assembled fits the context window next to the reserved prompt
\* overhead: the token total plus prompt_reserved_tokens is at most
\* model_context_tokens.
C27_FitsContextWindow ==
    pc = "assembled" =>
        SumTokens(assembled) + asm_config.prompt_reserved_tokens
            <= asm_config.model_context_tokens


(***************************************************************************)
(* Hybrid retrieval under validated configurations                         *)
(***************************************************************************)
\* configurations RetrievalConfig accepts, hybrid retrieval on
HybridConfigs ==
    {cfg \in {[DefaultConfig EXCEPT !.base_k = b, !.mmr_k = 1, !.min_high_score = m,
                                    !.score_threshold = t,
                                    !.bm25_weight = w[1], !.embedding_weight = w[2]] :
                b \in 1..MaxBaseK, m \in {1, MaxBaseK}, t \in {<<1, 125>>, <<1, 50>>},
                w \in {<<<<1, 2>>, <<1, 2>>>>, <<<<1, 2>>, <<11, 20>>>>, <<Zero, One>>}} :
        RetrievalConfig(cfg)}

InitHybrid ==
    /\ config \in HybridConfigs
    /\ corpus_docs = [i \in 1..NumChunks |-> i]
    /\ bm25 = "built"
    /\ embeddings = <<>>
    /\ vectorstore = NoStore
    /\ bm25_scores = <<>>
    /\ pc = "idle"
    /\ candidates = <<>>
    /\ filtered = <<>>
    /\ searches = <<>>
    /\ deduped = <<>>
    /\ selected = <<>>
    /\ docs = <<>>
    /\ asm_config = <<>>
    /\ raw_config = <<>>
    /\ calls = <<>>
    /\ store = <<>>
    /\ query = NoQuery
    /\ chunking = <<>>
    /\ tasks = <<>>
    /\ requests = <<>>
    /\ clock = 0
    /\ assembled = <<>>

SpecHybrid ==
    InitHybrid /\ [][Invoke \/ Search \/ Filter \/ Expand \/ Deduplicate \/ Select]_vars

\* the configuration is one the claim speaks of
FusedBelowThreshold ==
    /\ config.use_hybrid /\ bm25 = "built"
    /\ RetrievalConfig(config)
    /\ RatGeq(config.score_threshold, <<1, 50>>)

\* the answer of the expanded dense search of the call
ExpandedSearch == _run_vectorstore_search(vectorstore, config.base_k * 2)

\* C28: in hybrid mode, under a validated configuration with score_threshold
\* at least 0.02, every fused score is at most 1.05/61, the threshold filter
\* leaves no fused candidate, the expansion search runs, and every candidate
\* and every returned chunk carries the score the expanded dense search gave.
C28_FusedScoresNeverSurvive ==
    FusedBelowThreshold =>
        /\ pc = "filter" =>
                \A i \in 1..Len(candidates) : RatLeq(candidates[i][2], <<21, 1220>>)
        /\ pc \in {"expand", "dedupe", "select", "done"} => filtered = <<>>
        /\ pc \in {"dedupe", "select", "done"} =>
                /\ searches = <<config.base_k * 2>>
                /\ Range(candidates) \subseteq Range(ExpandedSearch)
        /\ pc = "done" => Range(selected) \subseteq Range(ExpandedSearch)

\* with weights summing to 1.05 and the threshold at 0.02 the fusion found
\* chunks, the best of them scored 1.05/61, and the call returned a chunk with
\* its dense score
C28_Witness ==
    /\ FusedBelowThreshold
    /\ pc = "done"
    /\ RatAdd(config.bm25_weight, config.embedding_weight) = <<21, 20>>
    /\ config.score_threshold = <<1, 50>>
    /\ LET fused == _hybrid_search(vectorstore, corpus_docs, bm25_scores, config)
       IN  fused # <<>> /\ RatSame(fused[1][2], <<21, 1220>>)
    /\ selected # <<>>


(***************************************************************************)
(* chunking.py chunk_large_document: the batch loop                        *)
(***************************************************************************)
MaxTextLen == 40
MaxOverlapTokens == 2
MaxBatchExtra == 5

\* batch sizes no smaller than the overlap in characters
BatchSizes == {10 * MaxOverlapTokens + d : d \in 0..MaxBatchExtra}

\* `if len(text) <= batch_size: return chunk_notes(...)`, else `start = 0`
ChunkLargeDocument ==
    /\ pc = "chunk"
    /\ IF chunking.len <= chunking.batch_size
       THEN pc' = "chunked" /\ UNCHANGED chunking
       ELSE pc' = "batch" /\ chunking' = [chunking EXCEPT !.start = 0]
    /\ UNCHANGED <<config, embeddings, corpus_docs, bm25, vectorstore, bm25_scores,
                   candidates, filtered, searches, deduped, selected, docs, asm_config,
                   assembled, raw_config, calls, store, query, tasks, requests, clock>>

\* `while start < len(text)` holds: the batch text[start:end] is cut
SliceBatch ==
    /\ pc = "batch"
    /\ chunking.start < chunking.len
    /\ chunking' = [chunking EXCEPT
                        !.end = Min(chunking.start + chunking.batch_size, chunking.len)]
    /\ pc' = "chunk_notes"
    /\ UNCHANGED <<config, embeddings, corpus_docs, bm25, vectorstore, bm25_scores,
                   candidates, filtered, searches, deduped, selected, docs, asm_config,
                   assembled, raw_config, calls, store, query, tasks, requests, clock>>

\* chunk_notes has chunked the batch, its chunks are appended and start moves
\* to end - overlap_tokens * 10
ProcessBatch ==
    /\ pc = "chunk_notes"
    /\ chunking' = [chunking EXCEPT !.start = chunking.end - chunking.overlap_tokens * 10]
    /\ pc' = "batch"
    /\ UNCHANGED <<config, embeddings, corpus_docs, bm25, vectorstore, bm25_scores,
                   candidates, filtered, searches, deduped, selected, docs, asm_config,
                   assembled, raw_config, calls, store, query, tasks, requests, clock>>

\* the loop condition fails: `return all_chunks`
ReturnChunks ==
    /\ pc = "batch"
    /\ ~(chunking.start < chunking.len)
    /\ pc' = "chunked"
    /\ UNCHANGED <<config, embeddings, corpus_docs, bm25, vectorstore, bm25_scores,
                   candidates, filtered, searches, deduped, selected, docs, asm_config,
                   assembled, raw_config, calls, store, query, chunking, tasks, requests,
                   clock>>

InitChunking ==
    /\ chunking \in [len : 1..MaxTextLen, batch_size : BatchSizes,
                     overlap_tokens : 0..MaxOverlapTokens, start : {0}, end : {0}]
    /\ pc = "chunk"
    /\ config = DefaultConfig
    /\ embeddings = <<>>
    /\ corpus_docs = <<>>
    /\ bm25 = "none"
    /\ vectorstore = NoStore
    /\ bm25_scores = <<>>
    /\ candidates = <<>>
    /\ filtered = <<>>
    /\ searches = <<>>
    /\ deduped = <<>>
    /\ selected = <<>>
    /\ docs = <<>>
    /\ asm_config = <<>>
    /\ assembled = <<>>
    /\ raw_config = <<>>
    /\ calls = <<>>
    /\ store = <<>>
    /\ query = NoQuery
    /\ tasks = <<>>
    /\ requests = <<>>
    /\ clock = 0

NextChunking == ChunkLargeDocument \/ SliceBatch \/ ProcessBatch \/ ReturnChunks

\* the call runs on: no step that can be taken is put off for ever
SpecChunking == InitChunking /\ [][NextChunking]_vars /\ WF_vars(NextChunking)

\* C29: with a positive overlap_tokens and a positive batch_size,
\* chunk_large_document returns, also for a text longer than batch_size: the
\* batch start reaches the end of the text.
C29_ChunkingTerminates ==
    chunking.overlap_tokens > 0 => <>(pc = "chunked")


(***************************************************************************)
(* server.py: POST /query and the background tasks                         *)
(***************************************************************************)
MaxRequests == 3
MaxClock == 3

\* f"task_{datetime.now().strftime('%Y%m%d_%H%M%S')}": the clock counts half
\* seconds and the format keeps whole seconds
task_id(now) == now \div 2

\* tasks[key] = value on the dict d
DictSet(d, key, value) ==
    [k \in DOMAIN d \cup {key} |-> IF k = key THEN value ELSE d[k]]

\* time passes
Tick ==
    /\ clock < MaxClock
    /\ clock' = clock + 1
    /\ UNCHANGED <<config, embeddings, corpus_docs, bm25, vectorstore, bm25_scores, pc,
                   candidates, filtered, searches, deduped, selected, docs, asm_config,
                   assembled, raw_config, calls, store, query, chunking, tasks, requests>>

\* POST /query: datetime.now() is read for the task_id (line 149) and again for
\* the timestamp of the entry (line 155), and the clock may have moved on by any
\* amount between the two reads; the entry is written under the task_id and the background task is
\* queued; a request is [task_id, at]: its task_id and where its run_graph_task
\* stands
start_query ==
    /\ pc = "serving"
    /\ Len(requests) < MaxRequests
    /\ \E second_read \in clock..MaxClock :
        /\ tasks' = DictSet(tasks, task_id(clock),
                            [status |-> "pending", result |-> None, summary |-> None,
                             artifacts |-> <<>>, timestamp |-> second_read])
        /\ clock' = second_read
    /\ requests' = Append(requests, [task_id |-> task_id(clock), at |-> "queued"])
    /\ UNCHANGED <<config, embeddings, corpus_docs, bm25, vectorstore, bm25_scores, pc,
                   candidates, filtered, searches, deduped, selected, docs, asm_config,
                   assembled, raw_config, calls, store, query, chunking>>

\* the except branch (lines 138-141) on the entry: status "error" and the key
\* "error" holding str(e), here the request whose task raised
except_branch(entry, r) == DictSet(DictSet(entry, "status", "error"), "error", <<r>>)

\* run_graph_task up to its first await. os.makedirs (107-108) is outside the
\* try: when it raises the coroutine ends and the entry is left as it was.
\* Line 110 stores "processing"; when one of lines 113-118 raises, the except
\* branch runs before any other coroutine does; otherwise the enrichment is
\* started in a thread
run_graph_task_begin(r) ==
    /\ r \in DOMAIN requests
    /\ requests[r].at = "queued"
    /\ \E outcome \in {"makedirs raised", "setup raised", "awaiting"} :
        /\ tasks' =
            IF outcome = "makedirs raised" THEN tasks
            ELSE IF outcome = "setup raised"
            THEN [tasks EXCEPT ![requests[r].task_id] =
                    except_branch(DictSet(@, "status", "processing"), r)]
            ELSE [tasks EXCEPT ![requests[r].task_id] = DictSet(@, "status", "processing")]
        /\ requests' = [requests EXCEPT
                            ![r].at = IF outcome = "awaiting" THEN "enriching" ELSE "done"]
    /\ UNCHANGED <<config, embeddings, corpus_docs, bm25, vectorstore, bm25_scores, pc,
                   candidates, filtered, searches, deduped, selected, docs, asm_config,
                   assembled, raw_config, calls, store, query, chunking, clock>>

\* the enrichment returned and the artifacts of the request are stored (line
\* 123), or it raised and the except branch runs
run_graph_task_enriched(r) ==
    /\ r \in DOMAIN requests
    /\ requests[r].at = "enriching"
    /\ \E outcome \in {"raised", "returned"} :
        IF outcome = "raised"
        THEN /\ tasks' = [tasks EXCEPT ![requests[r].task_id] = except_branch(@, r)]
             /\ requests' = [requests EXCEPT ![r].at = "done"]
        ELSE /\ tasks' = [tasks EXCEPT ![requests[r].task_id] =
                                DictSet(@, "artifacts", <<r>>)]
             /\ requests' = [requests EXCEPT ![r].at = "graph"]
    /\ UNCHANGED <<config, embeddings, corpus_docs, bm25, vectorstore, bm25_scores, pc,
                   candidates, filtered, searches, deduped, selected, docs, asm_config,
                   assembled, raw_config, calls, store, query, chunking, clock>>

\* after graph.invoke: it raised; or reading cl_output.txt raised (line 134);
\* or the result was stored and reading summary_output.txt raised (line 135);
\* or result, summary and status "completed" were stored (lines 134-136)
run_graph_task_finished(r) ==
    /\ r \in DOMAIN requests
    /\ requests[r].at = "graph"
    /\ \E outcome \in {"graph raised", "result unreadable", "summary unreadable",
                       "completed"} :
        tasks' = [tasks EXCEPT ![requests[r].task_id] =
                    IF outcome \in {"graph raised", "result unreadable"}
                    THEN except_branch(@, r)
                    ELSE IF outcome = "summary unreadable"
                    THEN except_branch(DictSet(@, "result", <<r>>), r)
                    ELSE DictSet(DictSet(DictSet(@, "result", <<r>>), "summary", <<r>>),
                                 "status", "completed")]
    /\ requests' = [requests EXCEPT ![r].at = "done"]
    /\ UNCHANGED <<config, embeddings, corpus_docs, bm25, vectorstore, bm25_scores, pc,
                   candidates, filtered, searches, deduped, selected, docs, asm_config,
                   assembled, raw_config, calls, store, query, chunking, clock>>

run_graph_task(r) ==
    \/ run_graph_task_begin(r)
    \/ run_graph_task_enriched(r)
    \/ run_graph_task_finished(r)

InitServer ==
    /\ tasks = <<>>
    /\ requests = <<>>
    /\ clock = 0
    /\ pc = "serving"
    /\ chunking = <<>>
    /\ config = DefaultConfig
    /\ embeddings = <<>>
    /\ corpus_docs = <<>>
    /\ bm25 = "none"
    /\ vectorstore = NoStore
    /\ bm25_scores = <<>>
    /\ candidates = <<>>
    /\ filtered = <<>>
    /\ searches = <<>>
    /\ deduped = <<>>
    /\ selected = <<>>
    /\ docs = <<>>
    /\ asm_config = <<>>
    /\ assembled = <<>>
    /\ raw_config = <<>>
    /\ calls = <<>>
    /\ store = <<>>
    /\ query = NoQuery

SpecServer ==
    InitServer /\ [][Tick \/ start_query
                        \/ \E r \in 1..MaxRequests : run_graph_task(r)]_vars

\* the moves of an entry's status the claim allows
StatusMove(old, new) ==
    \/ new = old
    \/ old = "pending" /\ new = "processing"
    \/ old = "processing" /\ new \in {"completed", "error"}

\* C30: no two accepted requests share a task_id, so none overwrites the
\* entry of another, and the status of every entry only moves from pending to
\* processing and from processing to completed or error.
C30_OneEntryPerRequest ==
    /\ [](\A i, j \in 1..Len(requests) :
                requests[i].task_id = requests[j].task_id => i = j)
    /\ [][\A id \in DOMAIN tasks :
                /\ id \in DOMAIN tasks'
                /\ StatusMove(tasks[id].status, tasks'[id].status)]_vars

====
